---- MODULE Spec2Model ----
(***************************************************************************)
(* Model of the zcrm email-to-CRM synchroniser: header-row schema          *)
(* discovery, the spreadsheet store adapter, cursor-based Gmail ingestion, *)
(* counterpart grouping, and the sync / backfill reconciliation engine.    *)
(*                                                                         *)
(* Strings that the code inspects character by character (headers, names,  *)
(* addresses) are sequences of one-character strings; "" is <<>>.          *)
(***************************************************************************)
EXTENDS Integers, Sequences, FiniteSets, TLC

VARIABLES
    headers,       \* row 1 of the backing sheet (sequence of header texts)
    columnMap,     \* sheets.js columnMap: field name -> 0-based column index
    mapHeaders,    \* sheets.js columnMap._headers: the header row last discovered
    totalColumns,  \* sheets.js totalColumns
    discovered,    \* TRUE once discoverColumns has run
    prevHeaders,   \* history: header row read by the discovery before the latest
    prevMap,       \* history: columnMap produced by that discovery
    prevValid,     \* history: TRUE when prevHeaders/prevMap hold a discovery
    sheet,         \* data rows of the backing sheet (row 2 onwards), each a
                   \* sequence of totalColumns cells
    lastOp,        \* history: name of the store operation performed last
    lastCall,      \* history: arguments of that operation
    mailbox,       \* upstream: per account, the number of messages added so far
                   \* (message <<a, i>> is the i-th message added to account a)
    historyIds,    \* gmail.js historyIds: per account the stored cursor, 0 = none
    ipc,           \* position of fetchNewEmails: idle, profile, list, done
    iacct,         \* index in gmailClients.keys() of the account being polled
    lastHistoryId, \* local of fetchNewEmailsForUser, read on entry
    currentHistoryId, \* local of fetchNewEmailsForUser, from getProfile
    allEmails,     \* local of fetchNewEmails: the messages collected so far
    delivered,     \* history: messages ever returned to a caller of fetchNewEmails
    pollLog,       \* history: per account, what its poll of this fetch did
    groupArg,      \* argument of groupEmailsByContact: the messages to group
    groupMap,      \* its result: <<contact, messages>> pairs in insertion order
    grouped,       \* TRUE once groupEmailsByContact has returned
    mode,          \* entry point in flight: idle, sync (runSyncCycle) or
                   \* backfill (runBackfill)
    batch,         \* units of the run not yet processed: messages (sync) or
                   \* <<contact, messages>> pairs (backfill)
    results,       \* local results of runSyncCycle / runBackfill
    colors,        \* background colour of each data row of the sheet
    units,         \* number of messages fetched so far by all runs
    lastUnit,      \* history: what the unit processed last did
    script,        \* replay: the messages, classifier answers and calendar
                   \* signals that every cycle of a replay sees
    snapshot,      \* replay: the store as the first cycle left it
    probe,         \* history: the inputs, the store before and the result of
                   \* one unit processed on its own
    proc           \* the host process of the continuous sync (index.js main)

schemaVars == <<headers, columnMap, mapHeaders, totalColumns, discovered,
                prevHeaders, prevMap, prevValid>>

storeVars == <<sheet, lastOp, lastCall>>

ingestVars == <<mailbox, historyIds, ipc, iacct, lastHistoryId, currentHistoryId,
                allEmails, delivered, pollLog>>

groupVars == <<groupArg, groupMap, grouped>>

engineVars == <<mode, batch, results, colors, units, lastUnit>>

replayVars == <<script, snapshot>>

hostVars == <<probe, proc>>

reconVars == <<groupVars, engineVars, replayVars, hostVars>>

vars == <<schemaVars, storeVars, ingestVars, reconVars>>

----------------------------------------------------------------------------
(* Bounds *)

MaxHeaders == 3
MaxRows == 2
MaxMsgs == 2
MaxGroup == 3
MaxBatch == 2
MaxUnits == 2
MaxCycles == 3
MaxInflight == 2
PageSize == 1

----------------------------------------------------------------------------
(* Character-level string helpers (JavaScript String methods) *)

EmptyMap == [f \in {} |-> 0]

UpperLetters ==
    <<"A","B","C","D","E","F","G","H","I","J","K","L","M",
      "N","O","P","Q","R","S","T","U","V","W","X","Y","Z">>

LowerLetters ==
    <<"a","b","c","d","e","f","g","h","i","j","k","l","m",
      "n","o","p","q","r","s","t","u","v","w","x","y","z">>

LowerOf == [c \in { UpperLetters[i] : i \in 1..26 } |->
               LowerLetters[CHOOSE i \in 1..26 : UpperLetters[i] = c]]

UpperOf == [c \in { LowerLetters[i] : i \in 1..26 } |->
               UpperLetters[CHOOSE i \in 1..26 : LowerLetters[i] = c]]

\* Least and greatest element of a non-empty set of positions
MinOf(S) == CHOOSE x \in S : \A y \in S : x <= y

MaxOf(S) == CHOOSE x \in S : \A y \in S : x >= y

\* Position of the first occurrence of character c in s, 0 when there is none
FirstPos(s, c) ==
    LET hits == { i \in 1..Len(s) : s[i] = c }
    IN IF hits = {} THEN 0 ELSE MinOf(hits)

\* A string rebuilt character by character: the characters listed in table
\* are replaced, the others kept
MapChars(s, table) ==
    SubSeq([i \in 1..Len(s) |-> IF s[i] \in DOMAIN table THEN table[s[i]] ELSE s[i]],
           1, Len(s))

\* String.prototype.toLowerCase
ToLowerCase(s) == MapChars(s, LowerOf)

\* String.prototype.toUpperCase
ToUpperCase(s) == MapChars(s, UpperOf)

IsSpace(c) == c = " "

\* String.prototype.trim
Trim(s) ==
    LET solid == { i \in 1..Len(s) : ~IsSpace(s[i]) }
    IN IF solid = {} THEN <<>> ELSE SubSeq(s, MinOf(solid), MaxOf(solid))

\* String.prototype.includes: t occurs in s as a contiguous substring
Includes(s, t) ==
    \E i \in 0..(Len(s) - Len(t)) : SubSeq(s, i + 1, i + Len(t)) = t

----------------------------------------------------------------------------
(* Schema discovery: sheets.js COLUMN_ALIASES and discoverColumns *)

FieldOrder ==
    <<"name", "email", "company", "location", "about", "meetingStatus", "meetingDate", "meetingTime", "lastContact", "notes", "with", "calendarLink", "meetLink", "needsResponse">>

COLUMN_ALIASES ==
    "name" :> <<
         <<"n", "a", "m", "e">>,
         <<"i", "n", "v", "e", "s", "t", "o", "r", " ", "n", "a", "m", "e">>,
         <<"i", "n", "v", "e", "s", "t", "o", "r">>,
         <<"c", "o", "n", "t", "a", "c", "t", " ", "n", "a", "m", "e">>,
         <<"c", "o", "n", "t", "a", "c", "t">>>>
    @@ "email" :> <<
         <<"e", "m", "a", "i", "l">>,
         <<"e", "m", "a", "i", "l", " ", "a", "d", "d", "r", "e", "s", "s">>,
         <<"e", "-", "m", "a", "i", "l">>>>
    @@ "company" :> <<
         <<"c", "o", "m", "p", "a", "n", "y">>,
         <<"f", "u", "n", "d">>,
         <<"f", "i", "r", "m">>,
         <<"o", "r", "g", "a", "n", "i", "z", "a", "t", "i", "o", "n">>,
         <<"o", "r", "g">>>>
    @@ "location" :> <<
         <<"l", "o", "c", "a", "t", "i", "o", "n">>,
         <<"c", "i", "t", "y">>,
         <<"h", "q">>,
         <<"h", "e", "a", "d", "q", "u", "a", "r", "t", "e", "r", "s">>,
         <<"b", "a", "s", "e", "d", " ", "i", "n">>>>
    @@ "about" :> <<
         <<"a", "b", "o", "u", "t">>,
         <<"b", "i", "o">>,
         <<"d", "e", "s", "c", "r", "i", "p", "t", "i", "o", "n">>,
         <<"b", "a", "c", "k", "g", "r", "o", "u", "n", "d">>>>
    @@ "meetingStatus" :> <<
         <<"m", "e", "e", "t", "i", "n", "g", " ", "s", "t", "a", "t", "u", "s">>,
         <<"s", "t", "a", "t", "u", "s">>,
         <<"s", "t", "a", "g", "e">>,
         <<"m", "e", "e", "t", "i", "n", "g", " ", "s", "t", "a", "g", "e">>>>
    @@ "meetingDate" :> <<
         <<"m", "e", "e", "t", "i", "n", "g", " ", "d", "a", "t", "e">>,
         <<"d", "a", "t", "e">>,
         <<"n", "e", "x", "t", " ", "m", "e", "e", "t", "i", "n", "g">>,
         <<"s", "c", "h", "e", "d", "u", "l", "e", "d", " ", "d", "a", "t", "e">>,
         <<"m", "e", "e", "t", "i", "n", "g">>>>
    @@ "meetingTime" :> <<
         <<"m", "e", "e", "t", "i", "n", "g", " ", "t", "i", "m", "e">>,
         <<"t", "i", "m", "e">>,
         <<"s", "t", "a", "r", "t", " ", "t", "i", "m", "e">>,
         <<"m", "e", "e", "t", "i", "n", "g", " ", "s", "t", "a", "r", "t">>>>
    @@ "lastContact" :> <<
         <<"l", "a", "s", "t", " ", "c", "o", "n", "t", "a", "c", "t">>,
         <<"l", "a", "s", "t", " ", "c", "o", "n", "t", "a", "c", "t", "e", "d">>,
         <<"l", "a", "s", "t", " ", "e", "m", "a", "i", "l">>,
         <<"l", "a", "s", "t", " ", "t", "o", "u", "c", "h">>>>
    @@ "notes" :> <<
         <<"n", "o", "t", "e", "s">>,
         <<"n", "o", "t", "e">>,
         <<"c", "o", "m", "m", "e", "n", "t", "s">>,
         <<"s", "u", "m", "m", "a", "r", "y">>,
         <<"c", "o", "n", "t", "e", "x", "t">>>>
    @@ "with" :> <<
         <<"w", "i", "t", "h">>,
         <<"m", "e", "e", "t", "i", "n", "g", " ", "w", "i", "t", "h">>,
         <<"a", "t", "t", "e", "n", "d", "e", "e">>,
         <<"a", "t", "t", "e", "n", "d", "e", "e", "s">>>>
    @@ "calendarLink" :> <<
         <<"c", "a", "l", "e", "n", "d", "a", "r", " ", "l", "i", "n", "k">>,
         <<"c", "a", "l", "e", "n", "d", "a", "r">>,
         <<"c", "a", "l", " ", "l", "i", "n", "k">>,
         <<"e", "v", "e", "n", "t", " ", "l", "i", "n", "k">>,
         <<"g", "c", "a", "l">>,
         <<"g", "o", "o", "g", "l", "e", " ", "c", "a", "l", "e", "n", "d", "a", "r">>>>
    @@ "meetLink" :> <<
         <<"m", "e", "e", "t", " ", "l", "i", "n", "k">>,
         <<"m", "e", "e", "t", "i", "n", "g", " ", "l", "i", "n", "k">>,
         <<"v", "i", "d", "e", "o", " ", "l", "i", "n", "k">>,
         <<"z", "o", "o", "m">>,
         <<"g", "o", "o", "g", "l", "e", " ", "m", "e", "e", "t">>,
         <<"m", "e", "e", "t">>>>
    @@ "needsResponse" :> <<
         <<"n", "e", "e", "d", "s", " ", "r", "e", "s", "p", "o", "n", "s", "e">>,
         <<"a", "w", "a", "i", "t", "i", "n", "g", " ", "r", "e", "s", "p", "o", "n", "s", "e">>,
         <<"p", "e", "n", "d", "i", "n", "g", " ", "r", "e", "s", "p", "o", "n", "s", "e">>,
         <<"r", "e", "s", "p", "o", "n", "s", "e", " ", "n", "e", "e", "d", "e", "d">>>>

\* The test of sheets.js line 72 for one field
AliasMatch(fieldName, headerLower) ==
    \E k \in 1..Len(COLUMN_ALIASES[fieldName]) :
        LET alias == COLUMN_ALIASES[fieldName][k]
        IN Includes(headerLower, alias) \/ Includes(alias, headerLower)

\* Inner loop of discoverColumns (lines 71-77): position in FieldOrder of the
\* first field, from position k on, whose alias set matches the header; 0 when
\* none does
RECURSIVE FirstMatchFrom(_, _)
FirstMatchFrom(headerLower, k) ==
    IF k > Len(FieldOrder) THEN 0
    ELSE IF AliasMatch(FieldOrder[k], headerLower) THEN k
    ELSE FirstMatchFrom(headerLower, k + 1)

\* The inner loop without its break: the last matching field wins
MatchField_LastField(headerLower) ==
    LET hits == { k \in 1..Len(FieldOrder) : AliasMatch(FieldOrder[k], headerLower) }
    IN IF hits = {} THEN 0 ELSE CHOOSE k \in hits : \A j \in hits : j <= k

MatchField(headerLower) == FirstMatchFrom(headerLower, 1)

\* Mutant: the header is matched without lower-casing it
BindHeader_CaseSensitive(map, hdrs, index) ==
    LET headerLower == Trim(hdrs[index + 1])
        k == MatchField(headerLower)
    IN IF k = 0 THEN map
       ELSE [f \in (DOMAIN map) \cup {FieldOrder[k]} |->
                IF f = FieldOrder[k] THEN index ELSE map[f]]

\* One iteration of headers.forEach (lines 68-78) for the 0-based index
BindHeader(map, hdrs, index) ==
    LET headerLower == Trim(ToLowerCase(hdrs[index + 1]))
        k == MatchField(headerLower)
    IN IF k = 0 THEN map
       ELSE [f \in (DOMAIN map) \cup {FieldOrder[k]} |->
                IF f = FieldOrder[k] THEN index ELSE map[f]]

RECURSIVE ForEachHeader(_, _, _)
ForEachHeader(map, hdrs, index) ==
    IF index >= Len(hdrs) THEN map
    ELSE ForEachHeader(BindHeader(map, hdrs, index), hdrs, index + 1)

\* The map built by discoverColumns from a header row (columnMap = {} first)
BuildColumnMap(hdrs) == ForEachHeader(EmptyMap, hdrs, 0)

\* getColumnIndex (lines 97-99)
GetColumnIndex(map, field) == IF field \in DOMAIN map THEN map[field] ELSE -1

----------------------------------------------------------------------------
(* Store adapter: sheets.js getInvestors, addInvestor, updateInvestor *)

NoCall == [rowIndex |-> 0, fields |-> {}]

StoreIdle ==
    /\ sheet = <<>>
    /\ lastOp = "none"
    /\ lastCall = NoCall

NoResults == [added |-> 0, updated |-> 0, skipped |-> 0]

NoUnit == [entry |-> "none", candidate |-> <<>>, sender |-> <<>>,
           action |-> "none", row |-> 0]

NoScript ==
    [entry |-> "none", msgs |-> <<>>, analysis |-> "none", threadSummary |-> <<>>,
     nextMeeting |-> "none", lastMeeting |-> "none"]

GroupIdle ==
    /\ groupArg = <<>>
    /\ groupMap = <<>>
    /\ grouped = FALSE

EngineIdle ==
    /\ mode = "idle"
    /\ batch = <<>>
    /\ results = NoResults
    /\ colors = <<>>
    /\ units = 0
    /\ lastUnit = NoUnit

ReplayIdle ==
    /\ script = NoScript
    /\ snapshot = <<>>

NoProbe == [entry |-> "none"]

NoProc == [phase |-> "none"]

HostIdle ==
    /\ probe = NoProbe
    /\ proc = NoProc

ReconIdle == GroupIdle /\ EngineIdle /\ ReplayIdle /\ HostIdle

\* The state after initSheets and ensureCRMSheet on a sheet with header row hdrs
SchemaReady(hdrs) ==
    /\ headers = hdrs
    /\ columnMap = BuildColumnMap(hdrs)
    /\ mapHeaders = hdrs
    /\ totalColumns = Len(hdrs)
    /\ discovered = TRUE
    /\ prevHeaders = <<>>
    /\ prevMap = EmptyMap
    /\ prevValid = FALSE

\* getInvestors (lines 148-180): one investor per data row, with its sheet row
\* number, the raw row and every mapped field; the email is lower-cased
InvestorOfRow(map, row, index) ==
    [rowIndex |-> index + 2,
     raw |-> row,
     f |-> [field \in DOMAIN map |->
               IF field = "email" THEN ToLowerCase(row[map[field] + 1])
               ELSE row[map[field] + 1]]]

GetInvestors(map, rows) ==
    [i \in 1..Len(rows) |-> InvestorOfRow(map, rows[i], i - 1)]

\* Mutant: every requested field is written, an unbound one into column A
WriteRequests_UnboundToFirst(map, updates) ==
    { <<IF GetColumnIndex(map, field) < 0 THEN 0 ELSE GetColumnIndex(map, field),
        updates[field]>> : field \in DOMAIN updates }

\* updateInvestor lines 275-284: one <<column, value>> request per field of
\* updates that has a bound column
WriteRequests(map, updates) ==
    { <<GetColumnIndex(map, field), updates[field]>> :
          field \in { g \in DOMAIN updates : GetColumnIndex(map, g) >= 0 } }

\* updateInvestor (lines 272-297): the requests applied to sheet row rowIndex
UpdateInvestor(map, rows, rowIndex, updates) ==
    LET reqs == WriteRequests(map, updates)
    IN [r \in 1..Len(rows) |->
           IF r + 1 # rowIndex THEN rows[r]
           ELSE [c \in 1..Len(rows[r]) |->
                    IF \E q \in reqs : q[1] = c - 1
                    THEN (CHOOSE q \in reqs : q[1] = c - 1)[2]
                    ELSE rows[r][c]]]

\* addInvestor (lines 244-267): a row of totalColumns empty cells, filled for
\* every field with a bound column and a non-empty value, appended to the sheet
NewRow(map, width, investor) ==
    [c \in 1..width |->
        IF \E field \in DOMAIN investor :
               /\ GetColumnIndex(map, field) = c - 1
               /\ investor[field] # <<>>
        THEN investor[CHOOSE field \in DOMAIN investor :
                          /\ GetColumnIndex(map, field) = c - 1
                          /\ investor[field] # <<>>]
        ELSE <<>>]

AddInvestor(map, width, rows, investor) ==
    Append(rows, NewRow(map, width, investor))

----------------------------------------------------------------------------
(* Match resolver: sheets.js findInvestorByEmail and findInvestorByName *)

\* A mapped field of an investor read by getInvestors; <<>> stands for both
\* the empty string and a field whose column is not bound (undefined)
Field(inv, field) == IF field \in DOMAIN inv.f THEN inv.f[field] ELSE <<>>

\* s.split('@')[0]
BeforeAt(s) ==
    IF FirstPos(s, "@") = 0 THEN s ELSE SubSeq(s, 1, FirstPos(s, "@") - 1)

\* s.replace(/[._-]/g, ' ')
ReplaceSeparators(s) == MapChars(s, [c \in {".", "_", "-"} |-> " "])

\* s.split(' ')[0]
FirstWord(s) ==
    IF FirstPos(s, " ") = 0 THEN s ELSE SubSeq(s, 1, FirstPos(s, " ") - 1)

\* s.split(/\s+/): the maximal runs of non-space characters; a leading or
\* trailing run of spaces yields an empty first or last part
RECURSIVE SplitSpaces(_, _)
SplitSpaces(s, cur) ==
    IF s = <<>> THEN <<cur>>
    ELSE IF IsSpace(Head(s))
         THEN IF Len(s) > 1 /\ IsSpace(s[2])
              THEN SplitSpaces(Tail(s), cur)
              ELSE <<cur>> \o SplitSpaces(Tail(s), <<>>)
         ELSE SplitSpaces(Tail(s), Append(cur, Head(s)))

\* Index of the first element of a sequence satisfying a test given as the set
\* of satisfying indices; 0 when there is none (Array.prototype.find)
FirstIndex(hits) == IF hits = {} THEN 0 ELSE MinOf(hits)

\* The predicate of the name fallback of findInvestorByEmail (lines 200-206)
LocalPartMatch(inv, emailLower) ==
    /\ Field(inv, "name") # <<>>
    /\ LET invNameLower == Trim(ToLowerCase(Field(inv, "name")))
           emailPrefix == ReplaceSeparators(BeforeAt(emailLower))
       IN \/ Includes(invNameLower, emailPrefix)
          \/ Includes(emailPrefix, FirstWord(invNameLower))

\* findInvestorByEmail without the comparison of stored addresses (lines
\* 190-194 left out): only the name fallback is tried
FindInvestorByEmail_NameOnly(map, rows, email) ==
    LET investors == GetInvestors(map, rows)
        emailLower == ToLowerCase(email)
    IN IF GetColumnIndex(map, "name") >= 0
       THEN FirstIndex({ i \in 1..Len(investors) :
                           LocalPartMatch(investors[i], emailLower) })
       ELSE 0

\* findInvestorByEmail (lines 185-211): position in getInvestors() of the
\* investor found, 0 for null
FindInvestorByEmail(map, rows, email) ==
    LET investors == GetInvestors(map, rows)
        emailLower == ToLowerCase(email)
        byEmail == IF GetColumnIndex(map, "email") >= 0
                   THEN FirstIndex({ i \in 1..Len(investors) :
                                       Field(investors[i], "email") = emailLower })
                   ELSE 0
        byName == IF GetColumnIndex(map, "name") >= 0
                  THEN FirstIndex({ i \in 1..Len(investors) :
                                      LocalPartMatch(investors[i], emailLower) })
                  ELSE 0
    IN IF byEmail # 0 THEN byEmail ELSE byName

\* findInvestorByName (lines 216-239): position in getInvestors() of the
\* investor found, 0 for null
FindInvestorByName(map, rows, name) ==
    IF name = <<>> THEN 0
    ELSE LET investors == GetInvestors(map, rows)
             nameLower == Trim(ToLowerCase(name))
             exact == FirstIndex({ i \in 1..Len(investors) :
                         /\ Field(investors[i], "name") # <<>>
                         /\ Trim(ToLowerCase(Field(investors[i], "name"))) = nameLower })
             nameParts == SplitSpaces(nameLower, <<>>)
             partial == IF Len(nameParts) >= 2
                        THEN FirstIndex({ i \in 1..Len(investors) :
                                /\ Field(investors[i], "name") # <<>>
                                /\ \A k \in 1..Len(nameParts) :
                                      Includes(ToLowerCase(Field(investors[i], "name")),
                                               nameParts[k]) })
                        ELSE 0
         IN IF exact # 0 THEN exact ELSE partial

----------------------------------------------------------------------------
(* Cursor-based ingestion: gmail.js fetchNewEmailsForUser and fetchNewEmails *)

Avi == <<"a", "v", "i", "@", "z", ".", "c", "o">>
Yuval == <<"y", "u", "v", "a", "l", "@", "z", ".", "c", "o">>

\* Addresses, display names and recipient headers of the messages modelled
JaneAddr == <<"j", "a", "n", "e", ".", "d", "o", "e", "@", "x", ".", "c", "o">>
JaneName == <<"J", "a", "n", "e", " ", "D", "o", "e">>
JohnAddr == <<"j", ".", "s", "m", "i", "t", "h", "@", "n", ".", "c", "o">>
JohnName == <<"J", "o", "h", "n", " ", "S", "m", "i", "t", "h">>
ToJaneNamed == <<"J", "a", "n", "e", " ", "<", "J", "a", "n", "e", ".", "D", "o", "e", "@", "x", ".", "c", "o", ">">>
ToAviThenJohn == <<"a", "v", "i", "@", "z", ".", "c", "o", ",", " ", "j", ".", "s", "m", "i", "t", "h", "@", "n", ".", "c", "o">>
AviName == <<"A", "v", "i">>
YuvalName == <<"Y", "u", "v", "a", "l">>

\* gmailClients.keys(): the monitored accounts in configuration order
MonitoredEmails == <<Avi, Yuval>>

Accounts == { MonitoredEmails[i] : i \in 1..Len(MonitoredEmails) }

NoError == <<>>

NoPoll == [outcome |-> "none", before |-> <<>>, after |-> <<>>,
           boot |-> 0, delta |-> 0, invalidated |-> FALSE,
           err |-> NoError, got |-> {}]

IngestIdle ==
    /\ mailbox = [a \in Accounts |-> 0]
    /\ historyIds = [a \in Accounts |-> 0]
    /\ ipc = "idle"
    /\ iacct = 0
    /\ lastHistoryId = 0
    /\ currentHistoryId = 0
    /\ allEmails = <<>>
    /\ delivered = {}
    /\ pollLog = [a \in Accounts |-> NoPoll]

\* profile.data.historyId (line 49): the upstream's current position
ProfileHistoryId(a) == mailbox[a] + 1

\* messages.list of the bootstrap path (lines 55-59): the recent messages
RecentMessageIds(a) == [i \in 1..mailbox[a] |-> <<a, i>>]

\* history.list (lines 72-92): ids of the messages added since startHistoryId
AddedSince(a, startHistoryId) ==
    [i \in 1..(mailbox[a] - startHistoryId + 1) |-> <<a, startHistoryId + i - 1>>]

\* getEmailDetails (lines 182-203): the messages whose messages.get succeeded,
\* in order; a failed get is logged and the message left out
RECURSIVE GetEmailDetails(_, _)
GetEmailDetails(messageIds, failed) ==
    IF messageIds = <<>> THEN <<>>
    ELSE IF Head(messageIds) \in failed
         THEN GetEmailDetails(Tail(messageIds), failed)
         ELSE <<Head(messageIds)>> \o GetEmailDetails(Tail(messageIds), failed)

Range(s) == { s[i] : i \in 1..Len(s) }

\* Mutant: the expired cursor is kept
DeleteCursor_Kept(ids, a) == ids

\* historyIds.delete(email) (line 103)
DeleteCursor(ids, a) == [ids EXCEPT ![a] = 0]

\* The cursor map left as it is: the set call of lines 61 and 78 left out
SetCursor_Dropped(ids, a, h) == ids

\* historyIds.set(email, currentHistoryId) (lines 61 and 78)
SetCursor(ids, a, h) == [ids EXCEPT ![a] = h]

\* Mutant: an account's error ends the loop over the accounts
NextAccountAfterError_Abort(i) == Len(MonitoredEmails) + 1

\* fetchNewEmails catch block (lines 121-123): the loop goes on with the next
\* account
NextAccountAfterError(i) == i + 1

\* Entry of fetchNewEmailsForUser for the account at index i (lines 44-45),
\* or the end of the loop of fetchNewEmails
EnterPoll(i, ids, log) ==
    IF i > Len(MonitoredEmails)
    THEN /\ ipc' = "done"
         /\ iacct' = 0
         /\ lastHistoryId' = 0
         /\ pollLog' = log
    ELSE /\ ipc' = "profile"
         /\ iacct' = i
         /\ lastHistoryId' = ids[MonitoredEmails[i]]
         /\ pollLog' = [log EXCEPT ![MonitoredEmails[i]].before = ids]

\* The upstream receives a message for an account
UpstreamAdd ==
    \E a \in Accounts :
        /\ mailbox[a] < MaxMsgs
        /\ mailbox' = [mailbox EXCEPT ![a] = @ + 1]
        /\ UNCHANGED <<historyIds, ipc, iacct, lastHistoryId, currentHistoryId,
                       allEmails, delivered, pollLog>>

\* fetchNewEmails is called (lines 113-116)
FetchNewEmails ==
    /\ ipc = "idle"
    /\ allEmails' = <<>>
    /\ EnterPoll(1, historyIds, [a \in Accounts |-> NoPoll])
    /\ UNCHANGED <<mailbox, historyIds, currentHistoryId, delivered>>

\* fetchNewEmailsForUser throws err; fetchNewEmails catches and logs it
PollFails(a, err) ==
    /\ EnterPoll(NextAccountAfterError(iacct), historyIds,
                 [pollLog EXCEPT ![a].outcome = "error",
                                 ![a].err = err,
                                 ![a].after = historyIds])
    /\ UNCHANGED <<mailbox, historyIds, currentHistoryId, allEmails, delivered>>

\* fetchNewEmailsForUser returns emails; fetchNewEmails pushes them
PollReturns(a, ids, emails, log) ==
    /\ allEmails' = allEmails \o emails
    /\ historyIds' = ids
    /\ EnterPoll(iacct + 1, ids,
                 [log EXCEPT ![a].outcome = "ok",
                             ![a].after = ids,
                             ![a].got = Range(emails)])
    /\ UNCHANGED <<mailbox, currentHistoryId, delivered>>

\* users.getProfile (lines 48-49)
GetProfile ==
    /\ ipc = "profile"
    /\ LET a == MonitoredEmails[iacct]
       IN \/ /\ currentHistoryId' = ProfileHistoryId(a)
             /\ ipc' = "list"
             /\ UNCHANGED <<mailbox, historyIds, iacct, lastHistoryId,
                            allEmails, delivered, pollLog>>
          \/ PollFails(a, <<"getProfile", 500>>)

\* Bootstrap path (lines 51-68): list the recent messages, store the cursor,
\* fetch the details
Bootstrap ==
    /\ ipc = "list"
    /\ lastHistoryId = 0
    /\ LET a == MonitoredEmails[iacct]
           log == [pollLog EXCEPT ![a].boot = @ + 1]
       IN \/ \E failed \in SUBSET Range(RecentMessageIds(a)) :
                PollReturns(a, SetCursor(historyIds, a, currentHistoryId),
                            GetEmailDetails(RecentMessageIds(a), failed), log)
          \/ /\ EnterPoll(NextAccountAfterError(iacct), historyIds,
                          [log EXCEPT ![a].outcome = "error",
                                      ![a].err = <<"messages.list", 500>>,
                                      ![a].after = historyIds])
             /\ UNCHANGED <<mailbox, historyIds, currentHistoryId, allEmails,
                            delivered>>

\* Delta path (lines 70-107): history.list from the stored cursor; on success
\* store the cursor and fetch the details; on 404 delete the cursor and call
\* fetchNewEmailsForUser again; any other error is rethrown
Delta ==
    /\ ipc = "list"
    /\ lastHistoryId # 0
    /\ LET a == MonitoredEmails[iacct]
           log == [pollLog EXCEPT ![a].delta = @ + 1]
       IN \/ \E failed \in SUBSET Range(AddedSince(a, lastHistoryId)) :
                PollReturns(a, SetCursor(historyIds, a, currentHistoryId),
                            GetEmailDetails(AddedSince(a, lastHistoryId), failed),
                            log)
          \/ /\ historyIds' = DeleteCursor(historyIds, a)
             /\ lastHistoryId' = historyIds'[a]
             /\ ipc' = "profile"
             /\ pollLog' = [log EXCEPT ![a].invalidated = TRUE]
             /\ UNCHANGED <<mailbox, iacct, currentHistoryId, allEmails, delivered>>
          \/ /\ EnterPoll(NextAccountAfterError(iacct), historyIds,
                          [log EXCEPT ![a].outcome = "error",
                                      ![a].err = <<"history.list", 500>>,
                                      ![a].after = historyIds])
             /\ UNCHANGED <<mailbox, historyIds, currentHistoryId, allEmails,
                            delivered>>

\* fetchNewEmails returns allEmails to its caller (line 126)
FetchReturns ==
    /\ ipc = "done"
    /\ ipc' = "idle"
    /\ delivered' = delivered \cup Range(allEmails)
    /\ UNCHANGED <<mailbox, historyIds, iacct, lastHistoryId, currentHistoryId,
                   allEmails, pollLog>>

\* The process is restarted: the in-memory cursors are lost
Restart ==
    /\ ipc = "idle"
    /\ historyIds # [a \in Accounts |-> 0]
    /\ historyIds' = [a \in Accounts |-> 0]
    /\ UNCHANGED <<mailbox, ipc, iacct, lastHistoryId, currentHistoryId,
                   allEmails, delivered, pollLog>>

IngestInit ==
    /\ SchemaReady(<<>>)
    /\ StoreIdle
    /\ IngestIdle
    /\ ReconIdle

IngestNext ==
    \/ UpstreamAdd /\ UNCHANGED <<schemaVars, storeVars, reconVars>>
    \/ FetchNewEmails /\ UNCHANGED <<schemaVars, storeVars, reconVars>>
    \/ GetProfile /\ UNCHANGED <<schemaVars, storeVars, reconVars>>
    \/ Bootstrap /\ UNCHANGED <<schemaVars, storeVars, reconVars>>
    \/ Delta /\ UNCHANGED <<schemaVars, storeVars, reconVars>>
    \/ FetchReturns /\ UNCHANGED <<schemaVars, storeVars, reconVars>>
    \/ Restart /\ UNCHANGED <<schemaVars, storeVars, reconVars>>

SpecIngest == IngestInit /\ [][IngestNext]_vars

----------------------------------------------------------------------------
(* Counterpart grouping: gmail.js groupEmailsByContact *)

\* Characters the address pattern of line 317 accepts: [^>,\s]
AddrChar(c) == c \notin {">", ",", " "}

\* Last position of the run of address characters that starts at k (k - 1 when
\* s[k] is no address character)
RECURSIVE RunEnd(_, _)
RunEnd(s, k) ==
    IF k > Len(s) \/ ~AddrChar(s[k]) THEN k - 1 ELSE RunEnd(s, k + 1)

\* [^>,\s]+@[^>,\s]+ matches at position k
AddrAt(s, k) ==
    \E j \in (k + 1)..(RunEnd(s, k) - 1) : s[j] = "@"

\* Start of capture group 1 of the match of /<?([^>,\s]+@[^>,\s]+)>?/ that
\* begins at position i, 0 when the pattern does not match there
CaptureStart(s, i) ==
    IF s[i] = "<" /\ AddrAt(s, i + 1) THEN i + 1
    ELSE IF AddrAt(s, i) THEN i
    ELSE 0

\* email.to?.match(...)?.[1]?.toLowerCase() (lines 317-318): the first address
\* of the recipient header, <<>> for undefined
FirstRecipient(to) ==
    LET starts == { i \in 1..Len(to) : CaptureStart(to, i) # 0 }
    IN IF starts = {} THEN <<>>
       ELSE LET i == CHOOSE x \in starts : \A y \in starts : x <= y
                k == CaptureStart(to, i)
            IN ToLowerCase(SubSeq(to, k, RunEnd(to, k)))

\* new Set(monitoredEmails.map(e => e.toLowerCase())) (line 308)
MonitoredSet == { ToLowerCase(MonitoredEmails[i]) : i \in 1..Len(MonitoredEmails) }

\* Lines 313-322: the contact a message is filed under
ContactOf(email) ==
    IF email.from \in MonitoredSet THEN FirstRecipient(email.to) ELSE email.from

\* Lines 324-332: one message added to the map, kept as a sequence of
\* <<contact, messages>> pairs in insertion order
AddToContact(byContact, email) ==
    LET contactEmail == ContactOf(email)
    IN IF contactEmail = <<>> \/ contactEmail \in MonitoredSet THEN byContact
       ELSE IF \E k \in 1..Len(byContact) : byContact[k][1] = contactEmail
            THEN [k \in 1..Len(byContact) |->
                     IF byContact[k][1] = contactEmail
                     THEN <<contactEmail, Append(byContact[k][2], email)>>
                     ELSE byContact[k]]
            ELSE Append(byContact, <<contactEmail, <<email>>>>)

RECURSIVE GroupFrom(_, _)
GroupFrom(byContact, emails) ==
    IF emails = <<>> THEN byContact
    ELSE GroupFrom(AddToContact(byContact, Head(emails)), Tail(emails))

\* groupEmailsByContact (lines 307-336)
GroupEmailsByContact(emails) == GroupFrom(<<>>, emails)

----------------------------------------------------------------------------
(* Messages as parseEmail (gmail.js lines 208-260) returns them: the sender
   address lower-cased, the recipient header verbatim, the date reduced to
   its calendar day *)

Message(id, from, fromName, to, date) ==
    [id |-> id, from |-> from, fromName |-> fromName, to |-> to, date |-> date]

ToAvi == Avi
ToYuval == Yuval

\* Inbound from two outside senders, a later second message of the first
\* sender, outbound to one outside recipient written as "Name <address>",
\* outbound with a monitored address listed first, and internal mail
MessagePool ==
    { Message(1, JaneAddr, JaneName, ToAvi, <<"2", "0", "2", "5", "-", "0", "1", "-", "0", "6">>),
      Message(2, JohnAddr, JohnName, ToYuval, <<"2", "0", "2", "5", "-", "0", "1", "-", "0", "7">>),
      Message(3, JaneAddr, JaneName, ToAvi, <<"2", "0", "2", "5", "-", "0", "1", "-", "0", "9">>),
      Message(4, Avi, AviName, ToJaneNamed, <<"2", "0", "2", "5", "-", "0", "1", "-", "0", "8">>),
      Message(5, Yuval, YuvalName, ToAviThenJohn, <<"2", "0", "2", "5", "-", "0", "1", "-", "1", "0">>),
      Message(6, Avi, AviName, ToYuval, <<"2", "0", "2", "5", "-", "0", "1", "-", "1", "1">>) }

\* The sequences of at most n distinct messages of a pool
BatchesOf(pool, n) ==
    { b \in UNION { [1..k -> pool] : k \in 0..n } :
          \A i, j \in DOMAIN b : i # j => b[i] # b[j] }

Batches(n) == BatchesOf(MessagePool, n)

----------------------------------------------------------------------------
(* Dates and times: sheets.js formatMeetingDate and formatMeetingTime. Dates
   are ISO strings as the classifier and the calendar API give them; the
   process clock is taken to run in UTC. *)

DigitChars == <<"0", "1", "2", "3", "4", "5", "6", "7", "8", "9">>

DigitOf == [c \in { DigitChars[i] : i \in 1..10 } |->
               (CHOOSE i \in 1..10 : DigitChars[i] = c) - 1]

IsDigit(c) == c \in DOMAIN DigitOf

DigitVal(c) == DigitOf[c]

RECURSIVE NumVal(_)
NumVal(s) ==
    IF s = <<>> THEN 0
    ELSE NumVal(SubSeq(s, 1, Len(s) - 1)) * 10 + DigitVal(s[Len(s)])

RECURSIVE NumToStr(_)
NumToStr(n) ==
    IF n < 10 THEN <<DigitChars[n + 1]>>
    ELSE NumToStr(n \div 10) \o <<DigitChars[(n % 10) + 1]>>

AllDigits(s) == \A i \in 1..Len(s) : IsDigit(s[i])

\* A string new Date() parses as a calendar day: YYYY-MM-DD, alone or followed
\* by a time
IsIsoDate(s) ==
    /\ Len(s) >= 10
    /\ AllDigits(SubSeq(s, 1, 4)) /\ s[5] = "-"
    /\ AllDigits(SubSeq(s, 6, 7)) /\ s[8] = "-"
    /\ AllDigits(SubSeq(s, 9, 10))
    /\ NumVal(SubSeq(s, 6, 7)) \in 1..12
    /\ NumVal(SubSeq(s, 9, 10)) \in 1..31
    /\ (Len(s) = 10 \/ s[11] = "T")

\* YYYY-MM-DDTHH:MM...
IsIsoDateTime(s) ==
    /\ IsIsoDate(s) /\ Len(s) >= 16
    /\ AllDigits(SubSeq(s, 12, 13)) /\ s[14] = ":"
    /\ AllDigits(SubSeq(s, 15, 16))
    /\ NumVal(SubSeq(s, 12, 13)) \in 0..23
    /\ NumVal(SubSeq(s, 15, 16)) \in 0..59

\* const months = [...] (line 116)
months ==
    <<<<"J", "a", "n">>, <<"F", "e", "b">>, <<"M", "a", "r">>, <<"A", "p", "r">>, <<"M", "a", "y">>, <<"J", "u", "n">>,
      <<"J", "u", "l">>, <<"A", "u", "g">>, <<"S", "e", "p">>, <<"O", "c", "t">>, <<"N", "o", "v">>, <<"D", "e", "c">>>>

\* What the template of line 120 yields for an Invalid Date
InvalidDateText == <<"N", "a", "N", " ", "u", "n", "d", "e", "f", "i", "n", "e", "d", " ", "N", "a", "N">>

\* formatMeetingDate (lines 111-124)
FormatMeetingDate(dateStr) ==
    IF dateStr = <<>> THEN <<>>
    ELSE IF ~IsIsoDate(dateStr) THEN InvalidDateText
    ELSE NumToStr(NumVal(SubSeq(dateStr, 9, 10))) \o <<" ">>
         \o months[NumVal(SubSeq(dateStr, 6, 7))] \o <<" ">>
         \o NumToStr(NumVal(SubSeq(dateStr, 1, 4)))

\* What lines 134-139 yield for an Invalid Date: NaN % 12 || 12 is 12
InvalidTimeText == <<"1", "2", ":", "N", "a", "N", " ", "A", "M">>

\* formatMeetingTime (lines 129-143)
FormatMeetingTime(dateTimeStr) ==
    IF dateTimeStr = <<>> THEN <<>>
    ELSE IF ~IsIsoDate(dateTimeStr) THEN InvalidTimeText
    ELSE LET timed == IsIsoDateTime(dateTimeStr)
             hours == IF timed THEN NumVal(SubSeq(dateTimeStr, 12, 13)) ELSE 0
             minutes == IF timed THEN NumVal(SubSeq(dateTimeStr, 15, 16)) ELSE 0
             ampm == IF hours >= 12 THEN <<"P", "M">> ELSE <<"A", "M">>
             hours12 == IF hours % 12 = 0 THEN 12 ELSE hours % 12
             minutesStr == IF minutes < 10 THEN <<"0">> \o NumToStr(minutes)
                           ELSE NumToStr(minutes)
         IN NumToStr(hours12) \o <<":">> \o minutesStr \o <<" ">> \o ampm

\* s.split('T')[0]
BeforeT(s) ==
    IF FirstPos(s, "T") = 0 THEN s ELSE SubSeq(s, 1, FirstPos(s, "T") - 1)

\* new Date().toISOString().split('T')[0]: the day the runs take place
Today == <<"2", "0", "2", "5", "-", "0", "1", "-", "1", "5">>

----------------------------------------------------------------------------
(* Collaborator answers: the classifier (claude.js analyzeEmail and
   summarizeEmailThread) and the calendar (calendar.js
   getNextMeetingWithAttendee, getLastMeetingWithAttendee) *)

Scheduled == <<"S", "c", "h", "e", "d", "u", "l", "e", "d">>
Completed == <<"C", "o", "m", "p", "l", "e", "t", "e", "d">>
FollowUp == <<"F", "o", "l", "l", "o", "w", "-", "u", "p">>
NewContact == <<"N", "e", "w", " ", "C", "o", "n", "t", "a", "c", "t">>
Both == <<"B", "o", "t", "h">>
Yes == <<"Y", "e", "s">>
No == <<"N", "o">>
InitialContactNote == <<"-", " ", "I", "n", "i", "t", "i", "a", "l", " ", "c", "o", "n", "t", "a", "c", "t", " ", "v", "i", "a", " ", "e", "m", "a", "i", "l">>

\* The object JSON.parse returns (claude.js lines 105-112); parsed = FALSE
\* stands for the null of lines 106-116
Analysis(rel, vc, name, company, status, date, note) ==
    [parsed |-> TRUE, isRelevant |-> rel, isVCInvestor |-> vc,
     investorName |-> name, company |-> company, meetingStatus |-> status,
     meetingDate |-> date, noteSummary |-> note]

NoAnalysis ==
    [parsed |-> FALSE, isRelevant |-> FALSE, isVCInvestor |-> FALSE,
     investorName |-> <<>>, company |-> <<>>, meetingStatus |-> <<>>,
     meetingDate |-> <<>>, noteSummary |-> <<>>]

Acme == <<"A", "c", "m", "e">>
Beta == <<"B", "e", "t", "a">>
NoteIntro == <<"-", " ", "i", "n", "t", "r", "o">>
NoteCall == <<"-", " ", "c", "a", "l", "l">>
ThreadNote == <<"-", " ", "t", "h", "r", "e", "a", "d">>

Analyses ==
    { NoAnalysis,
      Analysis(FALSE, FALSE, <<>>, <<>>, <<>>, <<>>, <<>>),
      Analysis(TRUE, FALSE, JaneName, <<>>, <<>>, <<>>, <<>>),
      Analysis(TRUE, TRUE, <<>>, <<>>, <<>>, <<>>, <<>>),
      Analysis(TRUE, TRUE, JaneName, Acme, NewContact, <<>>, NoteIntro),
      Analysis(TRUE, TRUE, JohnName, Beta, FollowUp, <<"2", "0", "2", "5", "-", "0", "1", "-", "2", "0">>, NoteCall) }

\* response.content[0].text of summarizeEmailThread (claude.js line 150)
ThreadSummaries == { <<>>, ThreadNote }

\* A meeting as findMeetingsWithAttendeeForUser builds it (calendar.js lines
\* 153-172): of the fields the engine reads only start is present, so its
\* calendarLink, meetLink and needsResponse are undefined
NoMeeting == [found |-> FALSE, start |-> <<>>]

NextMeeting == [found |-> TRUE, start |-> <<"2", "0", "2", "5", "-", "0", "1", "-", "1", "8", "T", "1", "4", ":", "3", "0", ":", "0", "0", "Z">>]

LastMeeting == [found |-> TRUE, start |-> <<"2", "0", "2", "5", "-", "0", "1", "-", "1", "0", "T", "0", "9", ":", "0", "5", ":", "0", "0", "Z">>]

NextSignals == { NoMeeting, NextMeeting }

LastSignals == { NoMeeting, LastMeeting }

----------------------------------------------------------------------------
(* Reconciliation engine: sync.js processEmail and backfill.js processContact *)

AviAt == <<"a", "v", "i", "@">>
YuvalAt == <<"y", "u", "v", "a", "l", "@">>

\* determineWith: sync.js lines 407-418 for one message, backfill.js lines
\* 58-73 for the messages of a contact
DetermineWith(msgs) ==
    LET hasAvi == \E i \in 1..Len(msgs) :
                      \/ Includes(ToLowerCase(msgs[i].to), AviAt)
                      \/ Includes(ToLowerCase(msgs[i].from), AviAt)
        hasYuval == \E i \in 1..Len(msgs) :
                      \/ Includes(ToLowerCase(msgs[i].to), YuvalAt)
                      \/ Includes(ToLowerCase(msgs[i].from), YuvalAt)
    IN IF hasAvi /\ hasYuval THEN Both
       ELSE IF hasAvi THEN AviName
       ELSE IF hasYuval THEN YuvalName
       ELSE Both

\* An updates object whose entries are all written, their conditions ignored
Upd_Unconditional(field, value, cond) == field :> value

\* An entry of an updates object that is present only under a condition
Upd(field, value, cond) == IF cond THEN field :> value ELSE EmptyMap

\* a || b on strings
OrElse(a, b) == IF a # <<>> THEN a ELSE b

\* Points at which a collaborator call of one unit can throw: nowhere, in a
\* read before the first store write (getInvestors, the classifier), in the
\* first store write, in the separate notes write
FailPoints == { "none", "read", "write", "notes" }

\* What processing one unit did: the store rows it leaves, the action of its
\* result ("error" when it threw), the address it used as candidate email and
\* the sheet row it wrote (0 for none)
Outcome(rows, action, reason, candidate, row) ==
    [rows |-> rows, action |-> action, reason |-> reason,
     candidate |-> candidate, row |-> row]

\* sync.js lines 452-477: status, date and time from the classifier answer
\* and the calendar signals
DeriveSync(analysis, nextMeeting, lastMeeting) ==
    IF nextMeeting.found
    THEN [status |-> Scheduled, date |-> BeforeT(nextMeeting.start),
          time |-> FormatMeetingTime(nextMeeting.start)]
    ELSE IF lastMeeting.found /\ analysis.meetingStatus = <<>>
    THEN [status |-> Completed, date |-> BeforeT(lastMeeting.start),
          time |-> FormatMeetingTime(lastMeeting.start)]
    ELSE [status |-> analysis.meetingStatus, date |-> analysis.meetingDate,
          time |-> <<>>]

\* backfill.js lines 109-135
DeriveBackfill(analysis, nextMeeting, lastMeeting) ==
    IF nextMeeting.found
    THEN [status |-> Scheduled, date |-> BeforeT(nextMeeting.start),
          time |-> FormatMeetingTime(nextMeeting.start)]
    ELSE IF /\ lastMeeting.found
            /\ (analysis.meetingStatus = <<>> \/ analysis.meetingStatus = NewContact)
    THEN [status |-> Completed, date |-> BeforeT(lastMeeting.start),
          time |-> FormatMeetingTime(lastMeeting.start)]
    ELSE [status |-> analysis.meetingStatus, date |-> analysis.meetingDate,
          time |-> <<>>]

\* The two store writes of an update path: updateInvestor with the field
\* updates, then, when there is a note, updateInvestor with the new notes text
WriteUpdate(map, rows, rowIndex, updates, hasNote, updatedNotes, fail, candidate) ==
    LET first == UpdateInvestor(map, rows, rowIndex, updates)
        second == UpdateInvestor(map, first, rowIndex, "notes" :> updatedNotes)
    IN IF fail = "write" THEN Outcome(rows, "error", "write", candidate, 0)
       ELSE IF ~hasNote THEN Outcome(first, "updated", "", candidate, rowIndex)
       ELSE IF fail = "notes" THEN Outcome(first, "error", "notes", candidate, rowIndex)
       ELSE Outcome(second, "updated", "", candidate, rowIndex)

\* The notes cell overwritten with the new summary alone
JoinNotes_Replace(existingNotes, noteSummary) == noteSummary

\* `${existingNotes}\n${noteSummary}` or noteSummary (sync.js lines 526-529)
JoinNotes(existingNotes, noteSummary) ==
    IF existingNotes # <<>> THEN existingNotes \o <<"\n">> \o noteSummary
    ELSE noteSummary

\* The updates object of the existing-investor path (sync.js lines 488-520),
\* built from the investor object that findInvestorByEmail returned and the
\* status, date and time d derived for the unit
UpdatesExisting(existingInvestor, email, analysis, d) ==
    LET meetingTime == d.time
        calendarLink == <<>>
        meetLink == <<>>
        needsResponse == FALSE
        meetingWith == DetermineWith(<<email>>)
        formattedMeetingDate ==
            IF d.date # <<>> THEN FormatMeetingDate(d.date) ELSE <<>>
    IN ("lastContact" :> Today)
       @@ Upd("meetingStatus", d.status,
              d.status # <<>> /\ d.status # Field(existingInvestor, "meetingStatus"))
       @@ Upd("meetingDate", formattedMeetingDate, formattedMeetingDate # <<>>)
       @@ Upd("meetingTime", meetingTime, meetingTime # <<>>)
       @@ ("with" :> meetingWith)
       @@ Upd("calendarLink", calendarLink, calendarLink # <<>>)
       @@ Upd("meetLink", meetLink, meetLink # <<>>)
       @@ ("needsResponse" :> IF needsResponse THEN Yes ELSE No)
       @@ Upd("company", analysis.company,
              analysis.company # <<>> /\ Field(existingInvestor, "company") = <<>>)

\* processEmail from line 429 on (sync.js lines 429-587), ex being the
\* position of the investor that findInvestorByEmail(email.from) returned
ProcessEmailFound(map, width, rows, email, ex, analysis, next0, last0, fail) ==
    LET investors == GetInvestors(map, rows)
        existingInvestor == investors[ex]
        contactEmail == IF ex # 0 THEN Field(existingInvestor, "email") ELSE email.from
        nextMeeting == IF contactEmail = <<>> THEN NoMeeting ELSE next0
        lastMeeting == IF contactEmail = <<>> THEN NoMeeting ELSE last0
        d == DeriveSync(analysis, nextMeeting, lastMeeting)
        meetingTime == d.time
        calendarLink == <<>>
        meetLink == <<>>
        needsResponse == FALSE
        meetingWith == DetermineWith(<<email>>)
        formattedMeetingDate ==
            IF d.date # <<>> THEN FormatMeetingDate(d.date) ELSE <<>>
        investorName == OrElse(analysis.investorName, email.fromName)
        nm == FindInvestorByName(map, rows, investorName)
        existingByName == investors[nm]
        updatesExisting == UpdatesExisting(existingInvestor, email, analysis, d)
        updatesByName ==
            ("lastContact" :> Today)
            @@ ("email" :> OrElse(Field(existingByName, "email"), email.from))
            @@ Upd("meetingStatus", d.status, d.status # <<>>)
            @@ Upd("meetingDate", formattedMeetingDate, formattedMeetingDate # <<>>)
            @@ Upd("meetingTime", meetingTime, meetingTime # <<>>)
            @@ Upd("calendarLink", calendarLink, calendarLink # <<>>)
            @@ Upd("meetLink", meetLink, meetLink # <<>>)
            @@ ("with" :> meetingWith)
            @@ ("needsResponse" :> IF needsResponse THEN Yes ELSE No)
        newInvestor ==
            [name |-> investorName,
             email |-> email.from,
             company |-> analysis.company,
             meetingStatus |-> OrElse(d.status, FollowUp),
             meetingDate |-> formattedMeetingDate,
             meetingTime |-> meetingTime,
             lastContact |-> Today,
             with |-> meetingWith,
             calendarLink |-> calendarLink,
             meetLink |-> meetLink,
             needsResponse |-> IF needsResponse THEN Yes ELSE No,
             notes |-> OrElse(analysis.noteSummary, InitialContactNote)]
    IN IF fail = "read" THEN Outcome(rows, "error", "read", email.from, 0)
       ELSE IF ~analysis.parsed
            THEN Outcome(rows, "skipped", "analysis_failed", email.from, 0)
       ELSE IF ~analysis.isRelevant
            THEN Outcome(rows, "skipped", "not_relevant", email.from, 0)
       ELSE IF ~analysis.isVCInvestor
            THEN Outcome(rows, "skipped", "not_vc_investor", email.from, 0)
       ELSE IF ex # 0
            THEN WriteUpdate(map, rows, existingInvestor.rowIndex, updatesExisting,
                             analysis.noteSummary # <<>>,
                             JoinNotes(Field(existingInvestor, "notes"),
                                       analysis.noteSummary),
                             fail, email.from)
       ELSE IF nm # 0
            THEN WriteUpdate(map, rows, existingByName.rowIndex, updatesByName,
                             analysis.noteSummary # <<>>,
                             JoinNotes(Field(existingByName, "notes"),
                                       analysis.noteSummary),
                             fail, email.from)
       ELSE IF fail = "write" THEN Outcome(rows, "error", "write", email.from, 0)
       ELSE Outcome(AddInvestor(map, width, rows, newInvestor), "added", "",
                    email.from, Len(rows) + 2)

\* processEmail without the two early returns of lines 436-446: every parsed
\* answer is treated as relevant and as a VC investor
ProcessEmail_NoFilter(map, width, rows, email, analysis, next0, last0, fail) ==
    ProcessEmailFound(map, width, rows, email,
                      FindInvestorByEmail(map, rows, email.from),
                      [analysis EXCEPT !.isRelevant = TRUE, !.isVCInvestor = TRUE],
                      next0, last0, fail)

\* processEmail (sync.js lines 423-587)
ProcessEmail(map, width, rows, email, analysis, next0, last0, fail) ==
    ProcessEmailFound(map, width, rows, email,
                      FindInvestorByEmail(map, rows, email.from),
                      analysis, next0, last0, fail)

\* Calendar day of an ISO date as a number that orders days
DayNum(d) ==
    NumVal(SubSeq(d, 1, 4)) * 10000 + NumVal(SubSeq(d, 6, 7)) * 100
    + NumVal(SubSeq(d, 9, 10))

\* emails.sort((a, b) => new Date(a.date) - new Date(b.date)) (backfill.js
\* line 89): stable, oldest first
RECURSIVE InsertByDate(_, _)
InsertByDate(sorted, e) ==
    IF sorted = <<>> THEN <<e>>
    ELSE IF DayNum(sorted[Len(sorted)].date) <= DayNum(e.date)
         THEN Append(sorted, e)
         ELSE Append(InsertByDate(SubSeq(sorted, 1, Len(sorted) - 1), e),
                     sorted[Len(sorted)])

RECURSIVE SortEmailsByDate(_)
SortEmailsByDate(msgs) ==
    IF msgs = <<>> THEN <<>>
    ELSE InsertByDate(SortEmailsByDate(SubSeq(msgs, 1, Len(msgs) - 1)),
                      msgs[Len(msgs)])

\* appendNotes (sheets.js lines 302-311): the text it writes to the notes cell
AppendedNotes(newNote, existingNotes) ==
    LET formattedNote == <<"[">> \o Today \o <<"]", " ">> \o newNote
    IN IF existingNotes # <<>>
       THEN existingNotes \o <<"\n", "\n">> \o formattedNote
       ELSE formattedNote

\* processContact from line 85 on (backfill.js lines 85-195), ex being the
\* position of the investor that findInvestorByEmail(contactEmail) returned
ProcessContactFound(map, width, rows, contactEmail, unsorted, ex, analysis, threadSummary, next0, last0, fail) ==
    LET investors == GetInvestors(map, rows)
        existing == investors[ex]
        emails == SortEmailsByDate(unsorted)
        latestEmail == emails[Len(emails)]
        d == DeriveBackfill(analysis, next0, last0)
        meetingTime == d.time
        calendarLink == <<>>
        meetLink == <<>>
        needsResponse == FALSE
        notes == IF Len(emails) > 1 /\ threadSummary # <<>> THEN threadSummary
                 ELSE analysis.noteSummary
        lastContact == latestEmail.date
        meetingWith == DetermineWith(emails)
        formattedMeetingDate ==
            IF d.date # <<>> THEN FormatMeetingDate(d.date) ELSE <<>>
        updates ==
            ("lastContact" :> lastContact)
            @@ ("with" :> meetingWith)
            @@ Upd("meetingStatus", d.status, d.status # <<>>)
            @@ Upd("meetingDate", formattedMeetingDate, formattedMeetingDate # <<>>)
            @@ Upd("meetingTime", meetingTime, meetingTime # <<>>)
            @@ Upd("calendarLink", calendarLink, calendarLink # <<>>)
            @@ Upd("meetLink", meetLink, meetLink # <<>>)
            @@ Upd("company", analysis.company,
                   analysis.company # <<>> /\ Field(existing, "company") = <<>>)
            @@ ("needsResponse" :> IF needsResponse THEN Yes ELSE No)
        newInvestor ==
            [name |-> OrElse(analysis.investorName, latestEmail.fromName),
             email |-> contactEmail,
             company |-> analysis.company,
             meetingStatus |-> OrElse(d.status, FollowUp),
             meetingDate |-> formattedMeetingDate,
             meetingTime |-> meetingTime,
             lastContact |-> lastContact,
             with |-> meetingWith,
             calendarLink |-> calendarLink,
             meetLink |-> meetLink,
             needsResponse |-> IF needsResponse THEN Yes ELSE No,
             notes |-> notes]
    IN IF fail = "read" THEN Outcome(rows, "error", "read", contactEmail, 0)
       ELSE IF ~analysis.parsed \/ ~analysis.isRelevant
            THEN Outcome(rows, "skipped", "not_relevant", contactEmail, 0)
       ELSE IF ~analysis.isVCInvestor
            THEN Outcome(rows, "skipped", "not_vc_investor", contactEmail, 0)
       ELSE IF ex # 0
            THEN WriteUpdate(map, rows, existing.rowIndex, updates, notes # <<>>,
                             AppendedNotes(notes, Field(existing, "notes")),
                             fail, contactEmail)
       ELSE IF fail = "write" THEN Outcome(rows, "error", "write", contactEmail, 0)
       ELSE Outcome(AddInvestor(map, width, rows, newInvestor), "added", "",
                    contactEmail, Len(rows) + 2)

\* processContact (backfill.js lines 78-195)
ProcessContact(map, width, rows, contactEmail, unsorted, analysis, threadSummary, next0, last0, fail) ==
    ProcessContactFound(map, width, rows, contactEmail, unsorted,
                        FindInvestorByEmail(map, rows, contactEmail),
                        analysis, threadSummary, next0, last0, fail)

----------------------------------------------------------------------------
(* Sorting and highlighting: sheets.js sortByMeetingDate and updateRowColors.
   The sheet orders a column as the spreadsheet service does for values
   entered as typed: dates and times as numbers, before text, before empty
   cells; text without regard to case. Cells read back as they were written. *)

\* The line feed and the printable characters that occur in cells, in code
\* order
CharOrder ==
    <<"\n", " ", "!", "#", "$", "%", "&", "'", "(", ")", "*",
      "+", ",", "-", ".", "/", "0", "1", "2", "3", "4", "5", "6",
      "7", "8", "9", ":", ";", "<", "=", ">", "?", "@", "A", "B",
      "C", "D", "E", "F", "G", "H", "I", "J", "K", "L", "M", "N",
      "O", "P", "Q", "R", "S", "T", "U", "V", "W", "X", "Y", "Z",
      "[", "]", "^", "_", "a", "b", "c", "d", "e", "f",
      "g", "h", "i", "j", "k", "l", "m", "n", "o", "p", "q", "r",
      "s", "t", "u", "v", "w", "x", "y", "z", "{", "|", "}", "~">>

CharRank(c) ==
    IF \E i \in 1..Len(CharOrder) : CharOrder[i] = c
    THEN CHOOSE i \in 1..Len(CharOrder) : CharOrder[i] = c
    ELSE 0

RECURSIVE TextCmp(_, _)
TextCmp(a, b) ==
    IF a = <<>> /\ b = <<>> THEN 0
    ELSE IF a = <<>> THEN -1
    ELSE IF b = <<>> THEN 1
    ELSE IF CharRank(Head(a)) < CharRank(Head(b)) THEN -1
    ELSE IF CharRank(Head(a)) > CharRank(Head(b)) THEN 1
    ELSE TextCmp(Tail(a), Tail(b))

\* The day a cell denotes, as YYYY-MM-DD or as formatMeetingDate writes it;
\* -1 when the cell is no date
CellDay(cell) ==
    LET parts == SplitSpaces(cell, <<>>)
    IN IF IsIsoDate(cell) /\ Len(cell) = 10 THEN DayNum(cell)
       ELSE IF /\ Len(parts) = 3
               /\ parts[1] # <<>> /\ AllDigits(parts[1])
               /\ \E m \in 1..12 : months[m] = parts[2]
               /\ Len(parts[3]) = 4 /\ AllDigits(parts[3])
            THEN NumVal(parts[3]) * 10000
                 + (CHOOSE m \in 1..12 : months[m] = parts[2]) * 100
                 + NumVal(parts[1])
       ELSE -1

\* The minute of the day a cell denotes, as formatMeetingTime writes it; -1
\* when the cell is no time
CellMinute(cell) ==
    LET parts == SplitSpaces(cell, <<>>)
        colon == { i \in 1..Len(parts[1]) : parts[1][i] = ":" }
        c == CHOOSE i \in colon : TRUE
        h == SubSeq(parts[1], 1, c - 1)
        mi == SubSeq(parts[1], c + 1, Len(parts[1]))
    IN IF /\ Len(parts) = 2
          /\ parts[2] \in { <<"A", "M">>, <<"P", "M">> }
          /\ Cardinality(colon) = 1
          /\ h # <<>> /\ AllDigits(h) /\ mi # <<>> /\ AllDigits(mi)
       THEN (NumVal(h) % 12) * 60 + NumVal(mi)
            + (IF parts[2] = <<"P", "M">> THEN 720 ELSE 0)
       ELSE -1

\* Sort key of a cell: <<class, number, text>>
SortKey(cell) ==
    LET day == CellDay(cell)
        minute == CellMinute(cell)
    IN IF cell = <<>> THEN <<2, 0, <<>>>>
       ELSE IF day >= 0 THEN <<0, day, <<>>>>
       ELSE IF minute >= 0 THEN <<0, minute, <<>>>>
       ELSE <<1, 0, ToLowerCase(cell)>>

KeyCmp(a, b) ==
    IF a[1] # b[1] THEN (IF a[1] < b[1] THEN -1 ELSE 1)
    ELSE IF a[2] # b[2] THEN (IF a[2] < b[2] THEN -1 ELSE 1)
    ELSE TextCmp(a[3], b[3])

\* sortSpecs (lines 374-397): the bound columns among meeting date, meeting
\* time and company, in that order
SortSpecs(map) ==
    LET time == IF GetColumnIndex(map, "meetingTime") >= 0
                THEN <<GetColumnIndex(map, "meetingTime")>> ELSE <<>>
        company == IF GetColumnIndex(map, "company") >= 0
                   THEN <<GetColumnIndex(map, "company")>> ELSE <<>>
    IN <<GetColumnIndex(map, "meetingDate")>> \o time \o company

\* The sort keys of a row, one per sort spec
RowKeys(specs, row) ==
    SubSeq([k \in 1..Len(specs) |-> SortKey(row[specs[k] + 1])], 1, Len(specs))

RECURSIVE KeysCmp(_, _)
KeysCmp(k1, k2) ==
    IF k1 = <<>> THEN 0
    ELSE LET k == KeyCmp(Head(k1), Head(k2))
         IN IF k # 0 THEN k ELSE KeysCmp(Tail(k1), Tail(k2))

\* Stable ascending order of the row positions 1..n under their keys
RECURSIVE InsertRow(_, _, _)
InsertRow(keys, order, i) ==
    IF order = <<>> THEN <<i>>
    ELSE IF KeysCmp(keys[order[Len(order)]], keys[i]) <= 0
         THEN Append(order, i)
         ELSE Append(InsertRow(keys, SubSeq(order, 1, Len(order) - 1), i),
                     order[Len(order)])

RECURSIVE SortOrder(_, _)
SortOrder(keys, n) ==
    IF n = 0 THEN <<>>
    ELSE InsertRow(keys, SortOrder(keys, n - 1), n)

\* A sort that puts the data rows in reverse order, whatever their keys
SortByMeetingDate_Reversed(map, rows) ==
    [i \in 1..Len(rows) |-> Len(rows) + 1 - i]

\* sortByMeetingDate (lines 350-420): the permutation of the data rows it
\* applies; the identity when no meeting date column is bound
SortByMeetingDate(map, rows) ==
    IF GetColumnIndex(map, "meetingDate") < 0 THEN [i \in 1..Len(rows) |-> i]
    ELSE LET keys == SubSeq([i \in 1..Len(rows) |-> RowKeys(SortSpecs(map), rows[i])],
                            1, Len(rows))
         IN SortOrder(keys, Len(rows))

Permute(seq, order) == [i \in 1..Len(order) |-> seq[order[i]]]

TrueText == <<"T", "R", "U", "E">>

\* The colour of a row when the test for an upcoming meeting comes first
RowColor_GreenFirst(inv) ==
    LET needsResponse == Field(inv, "needsResponse") \in { Yes, TrueText }
        meetingDate == Field(inv, "meetingDate")
        isUpcoming == CellDay(meetingDate) >= DayNum(Today)
    IN IF /\ meetingDate # <<>>
          /\ isUpcoming
          /\ Field(inv, "meetingStatus") = Scheduled
       THEN "green"
       ELSE IF needsResponse /\ Field(inv, "meetingStatus") = Scheduled THEN "yellow"
       ELSE "white"

\* updateRowColors lines 519-547: the colour of one investor's row
RowColor(inv) ==
    LET needsResponse == Field(inv, "needsResponse") \in { Yes, TrueText }
        meetingDate == Field(inv, "meetingDate")
        isUpcoming == CellDay(meetingDate) >= DayNum(Today)
    IN IF needsResponse /\ Field(inv, "meetingStatus") = Scheduled THEN "yellow"
       ELSE IF /\ meetingDate # <<>>
               /\ isUpcoming
               /\ Field(inv, "meetingStatus") = Scheduled
            THEN "green"
       ELSE "white"

\* updateRowColors (lines 513-552)
UpdateRowColors(map, rows) ==
    [i \in 1..Len(rows) |-> RowColor(InvestorOfRow(map, rows[i], i - 1))]

----------------------------------------------------------------------------
(* Specification Spec: sync cycles (sync.js runSyncCycle) and backfill runs
   (backfill.js runBackfill) carried out one after another against one sheet.
   Each run processes its units one at a time; the messages fetched, the
   classifier answers, the calendar signals and the failing calls are inputs. *)

EngineHeaders ==
    <<<<"N", "a", "m", "e">>,
      <<"E", "m", "a", "i", "l">>,
      <<"F", "u", "n", "d">>,
      <<"S", "t", "a", "t", "u", "s">>,
      <<"D", "a", "t", "e">>,
      <<"T", "i", "m", "e">>,
      <<"L", "a", "s", "t", " ", "T", "o", "u", "c", "h">>,
      <<"W", "i", "t", "h">>,
      <<"N", "e", "e", "d", "s", " ", "R", "e", "s", "p", "o", "n", "s", "e">>,
      <<"N", "o", "t", "e", "s">>>>

\* The same sheet without an email column
EngineHeadersNoEmail == <<EngineHeaders[1]>> \o SubSeq(EngineHeaders, 3, Len(EngineHeaders))

EngineLayouts == { EngineHeaders, EngineHeadersNoEmail }

NoteMet == <<"-", " ", "m", "e", "t">>

\* An investor object with every field of addInvestor empty
BlankInvestor ==
    [name |-> <<>>, email |-> <<>>, company |-> <<>>, meetingStatus |-> <<>>,
     meetingDate |-> <<>>, meetingTime |-> <<>>, lastContact |-> <<>>,
     with |-> <<>>, calendarLink |-> <<>>, meetLink |-> <<>>,
     needsResponse |-> <<>>, notes |-> <<>>]

\* Records the sheet may hold before the first run: one entered by hand with
\* a mixed-case address, one entered without an address
RecordJane ==
    [BlankInvestor EXCEPT !.name = JaneName, !.email = <<"J", "a", "n", "e", ".", "D", "o", "e", "@", "x", ".", "c", "o">>,
                          !.company = Acme, !.notes = NoteMet]

RecordJohn == [BlankInvestor EXCEPT !.name = JohnName]

InitialSheets(hdrs) ==
    LET map == BuildColumnMap(hdrs)
        jane == NewRow(map, Len(hdrs), RecordJane)
        john == NewRow(map, Len(hdrs), RecordJohn)
    IN { <<>>, <<john>>, <<jane, john>> }

EngineInit ==
    /\ \E hdrs \in EngineLayouts :
          /\ SchemaReady(hdrs)
          /\ sheet \in InitialSheets(hdrs)
    /\ lastOp = "none"
    /\ lastCall = NoCall
    /\ IngestIdle
    /\ GroupIdle
    /\ ReplayIdle
    /\ HostIdle
    /\ mode = "idle"
    /\ batch = <<>>
    /\ results = NoResults
    /\ colors = UpdateRowColors(columnMap, sheet)
    /\ units = 0
    /\ lastUnit = NoUnit

\* The counters without the results.skipped++ of the catch block: a unit that
\* threw is not counted
Counted_ErrorsUncounted(res, action) ==
    IF action = "added" THEN [res EXCEPT !.added = @ + 1]
    ELSE IF action = "updated" THEN [res EXCEPT !.updated = @ + 1]
    ELSE IF action = "skipped" THEN [res EXCEPT !.skipped = @ + 1]
    ELSE res

\* results.added++ / results.updated++ / results.skipped++; a unit that threw
\* is counted as skipped
Counted(res, action) ==
    IF action = "added" THEN [res EXCEPT !.added = @ + 1]
    ELSE IF action = "updated" THEN [res EXCEPT !.updated = @ + 1]
    ELSE [res EXCEPT !.skipped = @ + 1]

\* The effect of one processed unit on the run's state
UnitDone(entry, sender, o) ==
    /\ sheet' = o.rows
    /\ colors' = IF Len(o.rows) > Len(colors) THEN Append(colors, "white") ELSE colors
    /\ results' = Counted(results, o.action)
    /\ batch' = Tail(batch)
    /\ lastUnit' = [entry |-> entry, candidate |-> o.candidate, sender |-> sender,
                    action |-> o.action, row |-> o.row]
    /\ UNCHANGED <<mode, units>>

\* sortByMeetingDate() followed by updateRowColors()
SortAndColor ==
    LET order == SortByMeetingDate(columnMap, sheet)
        sorted == Permute(sheet, order)
        moved == [i \in 1..Len(colors) |->
                     IF i <= Len(order) THEN colors[order[i]] ELSE colors[i]]
        fresh == UpdateRowColors(columnMap, sorted)
    IN /\ sheet' = sorted
       /\ colors' = [i \in 1..Len(moved) |->
                        IF i <= Len(sorted) THEN fresh[i] ELSE moved[i]]

\* runSyncCycle lines 597-612: the fetch returned these messages
StartSync(fetched) ==
    /\ mode = "idle"
    /\ mode' = "sync"
    /\ batch' = fetched
    /\ results' = NoResults
    /\ units' = units + Len(fetched)
    /\ lastUnit' = NoUnit
    /\ UNCHANGED <<sheet, colors>>

\* runSyncCycle lines 615-627: one iteration of the loop over the messages
ProcessEmailStep(analysis, nextMeeting, lastMeeting, fail) ==
    /\ mode = "sync"
    /\ batch # <<>>
    /\ UnitDone("sync", Head(batch).from,
                ProcessEmail(columnMap, totalColumns, sheet, Head(batch), analysis,
                             nextMeeting, lastMeeting, fail))

\* runSyncCycle lines 602-605 and 629-637: sort and recolour after a change
FinishSync ==
    /\ mode = "sync"
    /\ batch = <<>>
    /\ IF results.added > 0 \/ results.updated > 0
       THEN SortAndColor
       ELSE UNCHANGED <<sheet, colors>>
    /\ mode' = "idle"
    /\ results' = NoResults
    /\ lastUnit' = NoUnit
    /\ UNCHANGED <<batch, units>>

\* runBackfill lines 201-223: optional clearCRMData (the values of the data
\* rows are cleared, their formatting stays), fetch, group by contact
StartBackfill(fetched, clearFirst) ==
    /\ mode = "idle"
    /\ mode' = "backfill"
    /\ sheet' = IF clearFirst THEN <<>> ELSE sheet
    /\ batch' = GroupEmailsByContact(fetched)
    /\ results' = NoResults
    /\ units' = units + Len(fetched)
    /\ lastUnit' = NoUnit
    /\ UNCHANGED colors

\* runBackfill lines 226-240: one iteration of the loop over the contacts
ProcessContactStep(analysis, threadSummary, nextMeeting, lastMeeting, fail) ==
    /\ mode = "backfill"
    /\ batch # <<>>
    /\ UnitDone("backfill", Head(batch)[2][1].from,
                ProcessContact(columnMap, totalColumns, sheet, Head(batch)[1],
                               Head(batch)[2], analysis, threadSummary,
                               nextMeeting, lastMeeting, fail))

\* runBackfill lines 242-248: sort and recolour, always
FinishBackfill ==
    /\ mode = "backfill"
    /\ batch = <<>>
    /\ SortAndColor
    /\ mode' = "idle"
    /\ results' = NoResults
    /\ lastUnit' = NoUnit
    /\ UNCHANGED <<batch, units>>

EngineFrame == UNCHANGED <<schemaVars, lastOp, lastCall, ingestVars, groupVars, replayVars, hostVars>>

\* The batches a fetch can return: up to MaxBatch of the messages that have
\* an outside party
FetchedBatches == BatchesOf({ m \in MessagePool : m.id <= 5 }, MaxBatch)

SyncStarts ==
    /\ mode = "idle"
    /\ \E fetched \in FetchedBatches :
          /\ units + Len(fetched) <= MaxUnits
          /\ StartSync(fetched)

\* What processing the next message of the batch can do, over all answers of
\* the collaborators
SyncOutcomes ==
    LET email == Head(batch)
        ex == FindInvestorByEmail(columnMap, sheet, email.from)
    IN { ProcessEmailFound(columnMap, totalColumns, sheet, email, ex, analysis,
                           nextMeeting, lastMeeting, fail) :
            analysis \in Analyses, nextMeeting \in NextSignals,
            lastMeeting \in LastSignals, fail \in FailPoints }

SyncStep ==
    /\ mode = "sync" /\ batch # <<>>
    /\ \E o \in SyncOutcomes : UnitDone("sync", Head(batch).from, o)

BackfillStarts ==
    /\ mode = "idle"
    /\ \E fetched \in FetchedBatches, clearFirst \in BOOLEAN :
          /\ units + Len(fetched) <= MaxUnits
          /\ StartBackfill(fetched, clearFirst)

\* What processing the next contact of the batch can do, over all answers of
\* the collaborators
BackfillOutcomes ==
    LET contactEmail == Head(batch)[1]
        ex == FindInvestorByEmail(columnMap, sheet, contactEmail)
    IN { ProcessContactFound(columnMap, totalColumns, sheet, contactEmail,
                             Head(batch)[2], ex, analysis, threadSummary,
                             nextMeeting, lastMeeting, fail) :
            analysis \in Analyses, threadSummary \in ThreadSummaries,
            nextMeeting \in NextSignals, lastMeeting \in LastSignals,
            fail \in FailPoints }

BackfillStep ==
    /\ mode = "backfill" /\ batch # <<>>
    /\ \E o \in BackfillOutcomes : UnitDone("backfill", Head(batch)[2][1].from, o)

Next ==
    \/ SyncStarts /\ EngineFrame
    \/ SyncStep /\ EngineFrame
    \/ FinishSync /\ EngineFrame
    \/ BackfillStarts /\ EngineFrame
    \/ BackfillStep /\ EngineFrame
    \/ FinishBackfill /\ EngineFrame

Spec == EngineInit /\ [][Next]_vars

----------------------------------------------------------------------------
(* Claims about the reconciliation engine *)

\* The lower-cased addresses of the records, as getInvestors reads them
StoredEmails ==
    LET investors == GetInvestors(columnMap, sheet)
    IN [i \in 1..Len(investors) |-> Field(investors[i], "email")]

\* C1: at every point of every sequence of sync cycles and backfill runs, no
\* two records of the store have the same non-empty lower-cased email.
C1_UniqueEmails ==
    \A i, j \in 1..Len(StoredEmails) :
        (i # j /\ StoredEmails[i] # <<>>) => StoredEmails[i] # StoredEmails[j]

\* A unit whose candidate address is already stored was processed as an
\* update while the store holds another record with an address
C1_Witness ==
    /\ lastUnit.action = "updated"
    /\ \E i, j \in 1..Len(StoredEmails) :
          /\ i # j
          /\ StoredEmails[i] = lastUnit.candidate
          /\ StoredEmails[j] # <<>>

\* C7, engine part: no unit creates or updates a record with a monitored
\* address as its candidate email.
C7_NoMonitoredCandidate ==
    lastUnit.action \in {"added", "updated"} => lastUnit.candidate \notin MonitoredSet

\* The notes text of row i of a sheet, as getInvestors reads it
NotesCell(rows, i) ==
    LET col == GetColumnIndex(columnMap, "notes")
    IN IF col >= 0 /\ col + 1 <= Len(rows[i]) THEN rows[i][col + 1] ELSE <<>>

\* s starts with t
StartsWith(s, t) == Len(t) <= Len(s) /\ SubSeq(s, 1, Len(t)) = t

\* Every notes text of the store is, after the step, a prefix of the notes
\* text of a record: of the record in the same row while a run processes
\* its units, of some record when a run starts or ends (the final sort
\* moves rows)
NotesPreserved ==
    \A i \in 1..Len(sheet) :
        IF mode' = mode
        THEN i <= Len(sheet') /\ StartsWith(NotesCell(sheet', i), NotesCell(sheet, i))
        ELSE \E j \in 1..Len(sheet') :
                StartsWith(NotesCell(sheet', j), NotesCell(sheet, i))

\* A backfill run starts and leaves the store empty (clearCRMData)
BackfillCleared == mode = "idle" /\ mode' = "backfill" /\ sheet' = <<>>

\* C15 (as stated): no step of a sync cycle or of a backfill run shortens,
\* replaces or drops a notes text; the previous text stays a prefix.
C15_NotesNeverDropped == [][NotesPreserved]_vars

\* C15 (amended): apart from the start of a backfill run that clears the
\* store, no step of a sync cycle or of a backfill run shortens, replaces or
\* drops a notes text; after an update the previous text is a prefix of the
\* record's notes.
C15_NotesKeptUnlessCleared == [][BackfillCleared \/ NotesPreserved]_vars

\* A unit updated a record that had notes and appended its own entry
C15_Witness ==
    /\ lastUnit.action = "updated"
    /\ lastUnit.row - 1 \in 1..Len(sheet)
    /\ \E k \in 1..Len(NotesCell(sheet, lastUnit.row - 1)) :
          NotesCell(sheet, lastUnit.row - 1)[k] = "\n"

\* The rows the running cycle created: addInvestor appends, and rows move
\* only in the final sort
CreatedThisCycle == (Len(sheet) - results.added + 1)..Len(sheet)

\* C16: a cycle takes one decision per counterpart: no unit of a running
\* cycle updates the record that a unit of the same cycle created for the
\* same counterpart address.
C16_OneDecisionPerCounterpart ==
    (mode # "idle" /\ lastUnit.action = "updated")
        => ~ /\ lastUnit.row - 1 \in CreatedThisCycle
             /\ StoredEmails[lastUnit.row - 1] = ToLowerCase(lastUnit.candidate)

\* added + updated + skipped
Total(res) == res.added + res.updated + res.skipped

\* A cycle starts with all counters at zero, and every step of a running
\* cycle takes one unit off the batch and adds one to exactly one counter,
\* whether the unit returned or threw
CountedStep ==
    /\ (mode = "idle" /\ mode' # "idle") => Total(results') = 0
    /\ (mode # "idle" /\ mode' = mode)
          => /\ Len(batch') = Len(batch) - 1
             /\ Total(results') = Total(results) + 1
             /\ results'.skipped = results.skipped
                    + (IF lastUnit'.action \in {"added", "updated"} THEN 0 ELSE 1)

\* C19: a unit that throws is counted as skipped and the rest of the batch
\* is still processed: from the n units a cycle fetched, each step moves one
\* unit from the batch into added + updated + skipped, so the sum is n when
\* the batch is empty.
C19_UnitsCounted == [][CountedStep]_vars

\* A unit threw, was counted as skipped, and the cycle goes on with the
\* units that remain
C19_Witness ==
    /\ mode # "idle"
    /\ lastUnit.action = "error"
    /\ results.skipped >= 1
    /\ batch # <<>>

----------------------------------------------------------------------------
(* Specification SpecReplay: one cycle (a sync cycle or a backfill run) over a
   batch of messages, then a second cycle over the same messages with the
   same classifier answers and calendar signals, against the sheet the first
   cycle left. No call fails. *)

\* What is replayed: the entry point, the messages fetched, and the answers
\* the collaborators give for each unit
Scripts ==
    [entry : {"sync", "backfill"},
     msgs : FetchedBatches \ {<<>>},
     analysis : Analyses,
     threadSummary : ThreadSummaries,
     nextMeeting : NextSignals,
     lastMeeting : LastSignals]

ReplayInit ==
    /\ \E hdrs \in EngineLayouts :
          /\ SchemaReady(hdrs)
          /\ sheet \in InitialSheets(hdrs)
    /\ lastOp = "none"
    /\ lastCall = NoCall
    /\ IngestIdle
    /\ GroupIdle
    /\ HostIdle
    /\ mode = "idle"
    /\ batch = <<>>
    /\ results = NoResults
    /\ colors = UpdateRowColors(columnMap, sheet)
    /\ units = 0
    /\ lastUnit = NoUnit
    /\ script \in Scripts
    /\ snapshot = <<>>

\* Messages fetched by the cycles that have finished or are under way
FirstCycleDone == mode = "idle" /\ units = Len(script.msgs)
SecondCycleDone == mode = "idle" /\ units = 2 * Len(script.msgs)

ReplayStartSync ==
    /\ script.entry = "sync"
    /\ units < 2 * Len(script.msgs)
    /\ StartSync(script.msgs)
    /\ UNCHANGED snapshot

ReplayStartBackfill ==
    /\ script.entry = "backfill"
    /\ units < 2 * Len(script.msgs)
    /\ StartBackfill(script.msgs, FALSE)
    /\ UNCHANGED snapshot

ReplayProcessEmail ==
    /\ ProcessEmailStep(script.analysis, script.nextMeeting, script.lastMeeting, "none")
    /\ UNCHANGED snapshot

ReplayProcessContact ==
    /\ ProcessContactStep(script.analysis, script.threadSummary, script.nextMeeting,
                          script.lastMeeting, "none")
    /\ UNCHANGED snapshot

\* The sheet as the first cycle left it is kept for comparison
ReplayFinishSync ==
    /\ FinishSync
    /\ snapshot' = IF units = Len(script.msgs) THEN sheet' ELSE snapshot

ReplayFinishBackfill ==
    /\ FinishBackfill
    /\ snapshot' = IF units = Len(script.msgs) THEN sheet' ELSE snapshot

ReplayFrame == UNCHANGED <<schemaVars, lastOp, lastCall, ingestVars, groupVars, hostVars, script>>

ReplayNext ==
    \/ ReplayStartSync /\ ReplayFrame
    \/ ReplayProcessEmail /\ ReplayFrame
    \/ ReplayFinishSync /\ ReplayFrame
    \/ ReplayStartBackfill /\ ReplayFrame
    \/ ReplayProcessContact /\ ReplayFrame
    \/ ReplayFinishBackfill /\ ReplayFrame

SpecReplay == ReplayInit /\ [][ReplayNext]_vars

\* C2: when the second cycle over the same messages, answers and calendar
\* signals has finished, the store holds the records the first cycle left,
\* every field value identical (so no record was created and no note entry
\* was added a second time).
C2_ReplayLeavesStoreUnchanged ==
    SecondCycleDone => sheet = snapshot

\* C36: the step that ends a batch which counted no Create and no Update (a
\* cycle that fetched no messages included) runs no sort and no recolour: it
\* leaves the row order, the cell values and the highlight colours as they
\* were.
C36_SortOnlyAfterChange ==
    [][(/\ mode # "idle"
        /\ mode' = "idle"
        /\ results.added = 0
        /\ results.updated = 0) => (sheet' = sheet /\ colors' = colors)]_vars

----------------------------------------------------------------------------
(* Specification SpecUnit: one unit processed on its own against a stored
   sheet: one message by processEmail (sync entry point) or one contact with
   its messages by processContact (backfill entry point). The inputs, the
   sheet before and the result are kept in probe. *)

UnitInit ==
    /\ \E hdrs \in EngineLayouts :
          /\ SchemaReady(hdrs)
          /\ sheet \in InitialSheets(hdrs)
    /\ lastOp = "none"
    /\ lastCall = NoCall
    /\ IngestIdle
    /\ GroupIdle
    /\ EngineIdle
    /\ ReplayIdle
    /\ HostIdle

\* What is kept of one processed unit
Probed(entry, contact, msgs, analysis, threadSummary, nextMeeting, lastMeeting, fail, o) ==
    [entry |-> entry, contact |-> contact, msgs |-> msgs, analysis |-> analysis,
     threadSummary |-> threadSummary, nextMeeting |-> nextMeeting,
     lastMeeting |-> lastMeeting, fail |-> fail, before |-> sheet, out |-> o]

\* const result = await processEmail(email) (sync.js line 617)
ProbeEmail(email, analysis, nextMeeting, lastMeeting, fail) ==
    LET o == ProcessEmail(columnMap, totalColumns, sheet, email, analysis,
                          nextMeeting, lastMeeting, fail)
    IN /\ sheet' = o.rows
       /\ probe' = Probed("sync", email.from, <<email>>, analysis, <<>>,
                          nextMeeting, lastMeeting, fail, o)

\* const result = await processContact(contactEmail, contactEmails)
\* (backfill.js line 228) for one entry of the map groupEmailsByContact built
ProbeContact(group, analysis, threadSummary, nextMeeting, lastMeeting, fail) ==
    LET o == ProcessContact(columnMap, totalColumns, sheet, group[1], group[2],
                            analysis, threadSummary, nextMeeting, lastMeeting, fail)
    IN /\ sheet' = o.rows
       /\ probe' = Probed("backfill", group[1], SortEmailsByDate(group[2]), analysis,
                          threadSummary, nextMeeting, lastMeeting, fail, o)

\* The entries of the maps groupEmailsByContact builds from the fetched batches
ContactGroups ==
    UNION { { GroupEmailsByContact(b)[k] : k \in 1..Len(GroupEmailsByContact(b)) } :
              b \in FetchedBatches }

ProbeEmails ==
    /\ probe.entry = "none"
    /\ \E b \in FetchedBatches \ {<<>>}, analysis \in Analyses,
          nextMeeting \in NextSignals, lastMeeting \in LastSignals, fail \in FailPoints :
          ProbeEmail(b[1], analysis, nextMeeting, lastMeeting, fail)

ProbeContacts ==
    /\ probe.entry = "none"
    /\ \E group \in ContactGroups, analysis \in Analyses,
          threadSummary \in ThreadSummaries, nextMeeting \in NextSignals,
          lastMeeting \in LastSignals, fail \in FailPoints :
          ProbeContact(group, analysis, threadSummary, nextMeeting, lastMeeting, fail)

UnitFrame == UNCHANGED <<schemaVars, lastOp, lastCall, ingestVars, groupVars, engineVars, replayVars, proc>>

UnitNext ==
    \/ ProbeEmails /\ UnitFrame
    \/ ProbeContacts /\ UnitFrame

SpecUnit == UnitInit /\ [][UnitNext]_vars

----------------------------------------------------------------------------
(* Claims about one processed unit *)

\* The unit passed the classifier filters and none of its calls threw
UnitDecided ==
    /\ probe.entry # "none"
    /\ probe.fail = "none"
    /\ probe.analysis.parsed
    /\ probe.analysis.isRelevant
    /\ probe.analysis.isVCInvestor

\* The records of the sheet the unit found
InvestorsBefore == GetInvestors(columnMap, probe.before)

\* The display name the unit resolves for its candidate
ResolvedName ==
    OrElse(probe.analysis.investorName, probe.msgs[Len(probe.msgs)].fromName)

\* Rule 1: topmost record whose lower-cased email is the candidate's
ExactEmailRule ==
    IF GetColumnIndex(columnMap, "email") >= 0
    THEN FirstIndex({ i \in 1..Len(InvestorsBefore) :
                        Field(InvestorsBefore[i], "email") = ToLowerCase(probe.contact) })
    ELSE 0

\* Rule 2: topmost record the name rule selects for the resolved name
NameTokenRule == FindInvestorByName(columnMap, probe.before, ResolvedName)

\* Rule 3: topmost record the local-part heuristic selects
LocalPartRule ==
    IF GetColumnIndex(columnMap, "name") >= 0
    THEN FirstIndex({ i \in 1..Len(InvestorsBefore) :
                        LocalPartMatch(InvestorsBefore[i], ToLowerCase(probe.contact)) })
    ELSE 0

\* The record of the first succeeding rule in the declared order, 0 for none
DeclaredResolve ==
    IF ExactEmailRule # 0 THEN ExactEmailRule
    ELSE IF NameTokenRule # 0 THEN NameTokenRule
    ELSE LocalPartRule

\* The record the unit wrote to: position in store order, 0 when it created one
ResolvedByUnit ==
    IF probe.out.action = "updated" THEN probe.out.row - 1 ELSE 0

\* C11: a message of the sync cycle resolves to the record of the first
\* succeeding rule in the order exact email, name-token match, local-part
\* heuristic (the name-token record when the last two differ), topmost first.
C11_ResolverOrder ==
    (UnitDecided /\ probe.entry = "sync") => ResolvedByUnit = DeclaredResolve

\* The resolved name has two or more tokens, all of them substrings of the
\* lower-cased name of the record at position i
SharesNameTokens(i) ==
    LET nameParts == SplitSpaces(Trim(ToLowerCase(ResolvedName)), <<>>)
    IN /\ Len(nameParts) >= 2
       /\ Field(InvestorsBefore[i], "name") # <<>>
       /\ \A k \in 1..Len(nameParts) :
             Includes(ToLowerCase(Field(InvestorsBefore[i], "name")), nameParts[k])

\* C12: in the sync cycle and in backfill alike, a unit whose resolved name
\* has at least two tokens that are all substrings of an existing record's
\* lower-cased name updates a record and never creates one.
C12_NameDedupEverywhere ==
    (UnitDecided /\ \E i \in 1..Len(InvestorsBefore) : SharesNameTokens(i))
        => probe.out.action = "updated"

\* The status of the precedence table: Scheduled with a next meeting, else
\* Completed with a last meeting and an empty or "New Contact" classifier
\* status, else the classifier status
TableStatus ==
    IF probe.nextMeeting.found THEN Scheduled
    ELSE IF /\ probe.lastMeeting.found
            /\ probe.analysis.meetingStatus \in {<<>>, NewContact}
    THEN Completed
    ELSE probe.analysis.meetingStatus

\* The record the unit created or updated, as stored after the unit
WrittenRecord == GetInvestors(columnMap, probe.out.rows)[probe.out.row - 1]

\* The unit created or updated a record
UnitWrote == UnitDecided /\ probe.out.action \in {"added", "updated"}

\* C13: in the sync cycle and in backfill alike, the status a unit stores is
\* the status of the precedence table whenever that status is not empty.
C13_StatusPrecedence ==
    (UnitWrote /\ TableStatus # <<>>)
        => Field(WrittenRecord, "meetingStatus") = TableStatus

\* The record at the position a unit wrote to, as stored before the unit
RecordBefore == InvestorsBefore[probe.out.row - 1]

\* The unit's store writes went to a record that existed before it (a unit
\* whose second write threw included)
UnitTouchedExisting ==
    /\ probe.entry # "none"
    /\ probe.out.action \in {"updated", "error"}
    /\ probe.out.row - 1 \in 1..Len(InvestorsBefore)

\* C14: a record whose organization is not empty has the same organization
\* after any update by a sync or backfill unit, whatever the classifier
\* reports.
C14_OrganizationKept ==
    (UnitTouchedExisting /\ Field(RecordBefore, "company") # <<>>)
        => Field(WrittenRecord, "company") = Field(RecordBefore, "company")

\* A record with an organization was updated by a unit whose classifier
\* answer names a different organization
C14_Witness ==
    /\ UnitTouchedExisting
    /\ probe.out.action = "updated"
    /\ Field(RecordBefore, "company") # <<>>
    /\ probe.analysis.company # <<>>
    /\ probe.analysis.company # Field(RecordBefore, "company")

\* The classifier answered, and its answer is filtered out: not relevant, or
\* relevant but not of the tracked category (a VC investor)
UnitFiltered ==
    /\ probe.entry # "none"
    /\ probe.fail # "read"
    /\ probe.analysis.parsed
    /\ (~probe.analysis.isRelevant \/ ~probe.analysis.isVCInvestor)

\* C17: a unit whose classifier answer is not relevant, or not of the
\* tracked category, is skipped with the reason not_relevant, respectively
\* not_vc_investor (the category filter's reason), and the store is left as
\* it was.
C17_SkipWritesNothing ==
    UnitFiltered
        => /\ probe.out.action = "skipped"
           /\ probe.out.reason = IF ~probe.analysis.isRelevant
                                 THEN "not_relevant" ELSE "not_vc_investor"
           /\ probe.out.rows = probe.before

\* A unit was skipped by the category filter although its sender has a
\* record in the store
C17_Witness ==
    /\ UnitFiltered
    /\ probe.analysis.isRelevant
    /\ probe.out.action = "skipped"
    /\ FindInvestorByEmail(columnMap, probe.before, probe.contact) # 0

\* C18: in the sync cycle and in backfill alike, a unit whose classifier
\* answer could not be parsed is skipped with the reason analysis_failed and
\* the store is left as it was.
C18_ParseFailureSkipped ==
    (probe.entry # "none" /\ probe.fail # "read" /\ ~probe.analysis.parsed)
        => /\ probe.out.action = "skipped"
           /\ probe.out.reason = "analysis_failed"
           /\ probe.out.rows = probe.before

\* The status, date and time the unit derived from the classifier answer and
\* the calendar signals
UnitDerived ==
    IF probe.entry = "sync"
    THEN DeriveSync(probe.analysis, probe.nextMeeting, probe.lastMeeting)
    ELSE DeriveBackfill(probe.analysis, probe.nextMeeting, probe.lastMeeting)

\* The notes of step 6: the classifier's summary, or for a contact with
\* several messages the thread summary when there is one
StepSixNotes ==
    IF /\ probe.entry = "backfill"
       /\ Len(probe.msgs) > 1
       /\ probe.threadSummary # <<>>
    THEN probe.threadSummary
    ELSE probe.analysis.noteSummary

\* The unit created a record
UnitCreated == UnitDecided /\ probe.out.action = "added"

\* C32: a record created by a sync or backfill unit has a non-empty status,
\* the derived status or "Follow-up" when that is empty, non-empty notes, the
\* notes of step 6 or the placeholder when there are none, and today as its
\* last contact date.
C32_CreateDefaults ==
    UnitCreated =>
        /\ Field(WrittenRecord, "meetingStatus") =
              (IF UnitDerived.status # <<>> THEN UnitDerived.status ELSE FollowUp)
        /\ Field(WrittenRecord, "notes") =
              (IF StepSixNotes # <<>> THEN StepSixNotes ELSE InitialContactNote)
        /\ Field(WrittenRecord, "lastContact") = Today

\* A call of the unit threw, so the caller's catch counted it as skipped
UnitFailed == probe.entry # "none" /\ probe.out.action = "error"

\* C37: a unit counted as skipped because one of its calls threw has modified
\* no cell of any record; in particular a failing notes write does not leave
\* the record with its other fields already updated.
C37_ErrorLeavesNoTrace == UnitFailed => probe.out.rows = probe.before

\* The email cell of the record at a sheet row, as stored
EmailCell(rows, rowIndex) ==
    IF GetColumnIndex(columnMap, "email") >= 0
    THEN rows[rowIndex - 1][GetColumnIndex(columnMap, "email") + 1]
    ELSE <<>>

\* C38: on every update path of the sync cycle and of backfill a record whose
\* stored email is not empty keeps that email.
C38_StoredEmailKept ==
    (UnitTouchedExisting /\ EmailCell(probe.before, probe.out.row) # <<>>)
        => EmailCell(probe.out.rows, probe.out.row)
              = EmailCell(probe.before, probe.out.row)

----------------------------------------------------------------------------
(* Specification SpecUpdate: one unit processed against a sheet whose records
   already carry meeting facts, written by earlier cycles, on a layout that
   also has the two link columns. *)

UpdateHeaders ==
    EngineHeaders \o <<<<"C", "a", "l", "e", "n", "d", "a", "r">>,
                       <<"M", "e", "e", "t", " ", "L", "i", "n", "k">>>>

LinkCal == <<"c", "a", "l", "/", "1">>
LinkMeet == <<"m", "e", "e", "t", "/", "1">>

\* Records as earlier cycles left them: one with an address and an upcoming
\* meeting, one without address and with a past meeting
StoredJane ==
    [RecordJane EXCEPT !.meetingStatus = Scheduled,
                       !.meetingDate = FormatMeetingDate(<<"2", "0", "2", "5", "-", "0", "1", "-", "2", "0">>),
                       !.meetingTime = FormatMeetingTime(NextMeeting.start),
                       !.lastContact = <<"2", "0", "2", "5", "-", "0", "1", "-", "0", "2">>,
                       !.with = YuvalName, !.calendarLink = LinkCal,
                       !.meetLink = LinkMeet, !.needsResponse = Yes]

StoredJohn ==
    [BlankInvestor EXCEPT !.name = JohnName, !.meetingStatus = Completed,
                          !.meetingDate = FormatMeetingDate(<<"2", "0", "2", "5", "-", "0", "1", "-", "1", "0">>),
                          !.meetingTime = FormatMeetingTime(LastMeeting.start),
                          !.lastContact = <<"2", "0", "2", "5", "-", "0", "1", "-", "0", "2">>,
                          !.with = Both, !.needsResponse = No]

UpdateInit ==
    /\ SchemaReady(UpdateHeaders)
    /\ LET map == BuildColumnMap(UpdateHeaders)
           jane == NewRow(map, Len(UpdateHeaders), StoredJane)
           john == NewRow(map, Len(UpdateHeaders), StoredJohn)
       IN sheet \in { <<jane>>, <<john, jane>> }
    /\ lastOp = "none"
    /\ lastCall = NoCall
    /\ IngestIdle
    /\ GroupIdle
    /\ EngineIdle
    /\ ReplayIdle
    /\ HostIdle

SpecUpdate == UpdateInit /\ [][UnitNext]_vars

MeetingFacts == {"meetingStatus", "meetingDate", "meetingTime", "calendarLink", "meetLink"}

\* The unit updated a record that existed before it
UnitUpdated == UnitDecided /\ probe.out.action = "updated"

\* C33: on the update path a record's status, meeting date, meeting time,
\* calendar link and meet link change only to a non-empty value, so a stored
\* value is never blanked, while last contact date, attributed member and
\* needs-response flag are written by every update.
C33_UpdateNeverBlanks ==
    UnitUpdated =>
        /\ \A f \in MeetingFacts :
              Field(WrittenRecord, f) # Field(RecordBefore, f)
                  => Field(WrittenRecord, f) # <<>>
        /\ Field(WrittenRecord, "lastContact") =
              (IF probe.entry = "sync" THEN Today
               ELSE probe.msgs[Len(probe.msgs)].date)
        /\ Field(WrittenRecord, "with") = DetermineWith(probe.msgs)
        /\ Field(WrittenRecord, "needsResponse") \in { Yes, No }

\* C33 witness: a record with a stored status, date, time and links was
\* updated by a unit that derived no status, and its attributed member and
\* needs-response flag were overwritten
C33_Witness ==
    /\ UnitUpdated
    /\ \A f \in MeetingFacts : Field(RecordBefore, f) # <<>>
    /\ probe.analysis.meetingStatus = <<>>
    /\ ~probe.nextMeeting.found /\ ~probe.lastMeeting.found
    /\ Field(WrittenRecord, "with") # Field(RecordBefore, "with")
    /\ Field(WrittenRecord, "needsResponse") # Field(RecordBefore, "needsResponse")

----------------------------------------------------------------------------
(* Specification SpecShutdown: the continuous sync of index.js main. The first
   cycle runs at once, later cycles on the interval timer (a tick is taken
   when no cycle is in flight: the interval is minutes, a cycle seconds), and
   SIGINT or SIGTERM run the shutdown handler. *)

\* main after initialize() and printCRMStatus(), before startContinuousSync
HostInit ==
    /\ \E hdrs \in EngineLayouts :
          /\ SchemaReady(hdrs)
          /\ sheet \in InitialSheets(hdrs)
    /\ lastOp = "none"
    /\ lastCall = NoCall
    /\ IngestIdle
    /\ GroupIdle
    /\ ReplayIdle
    /\ probe = NoProbe
    /\ proc = [phase |-> "main", timer |-> FALSE, signal |-> "none"]
    /\ mode = "idle"
    /\ batch = <<>>
    /\ results = NoResults
    /\ colors = UpdateRowColors(columnMap, sheet)
    /\ units = 0
    /\ lastUnit = NoUnit

\* startContinuousSync: the first runSyncCycle() is called at once, then
\* setInterval arms the timer; main registers the signal handlers
StartContinuousSync ==
    /\ proc.phase = "main"
    /\ SyncStarts
    /\ proc' = [proc EXCEPT !.phase = "running", !.timer = TRUE]

\* The setInterval callback: runSyncCycle() on a tick of the armed timer
IntervalTick ==
    /\ proc.phase = "running"
    /\ proc.timer
    /\ SyncStarts
    /\ UNCHANGED proc

\* The in-flight cycle processes its next message
CycleStep ==
    /\ proc.phase = "running"
    /\ SyncStep
    /\ UNCHANGED proc

\* The in-flight cycle sorts, recolours and returns
CycleFinish ==
    /\ proc.phase = "running"
    /\ FinishSync
    /\ UNCHANGED proc

\* The function startContinuousSync returns: clearInterval(intervalId)
StopSync(p) == [p EXCEPT !.timer = FALSE]

\* The SIGINT / SIGTERM handler of main: stopSync(); process.exit(0). The
\* process ends in the handler; whatever a cycle in flight had still to do
\* is not done
OnSignal ==
    /\ proc.phase = "running"
    /\ \E sig \in {"SIGINT", "SIGTERM"} :
          proc' = [StopSync(proc) EXCEPT !.phase = "exited", !.signal = sig]
    /\ UNCHANGED <<sheet, engineVars>>

HostFrame == UNCHANGED <<schemaVars, lastOp, lastCall, ingestVars, groupVars, replayVars, probe>>

ShutdownNext ==
    \/ StartContinuousSync /\ HostFrame
    \/ IntervalTick /\ HostFrame
    \/ CycleStep /\ HostFrame
    \/ CycleFinish /\ HostFrame
    \/ OnSignal /\ HostFrame

SpecShutdown == HostInit /\ [][ShutdownNext]_vars

----------------------------------------------------------------------------
(* Claims about the host process *)

\* C20: once a shutdown signal has invoked the cancellation handle, no new
\* cycle starts, and the process does not end while a cycle is in flight:
\* when it has exited, the timer is stopped and no cycle is left unfinished.
C20_GracefulShutdown ==
    proc.phase = "exited" => (~proc.timer /\ mode = "idle")

----------------------------------------------------------------------------
(* Specification SpecHost: index.js main from process start to exit.
   Configuration is validated, the collaborators are initialized, then either
   one cycle is awaited (--once) or startContinuousSync runs a first cycle
   and arms the interval timer. A cycle in flight is its position in
   runSyncCycle (fetching, looping over its units, sorting); the store is
   present as the fact that it has been read or written. The interval timer
   fires whether or not an earlier cycle is still in flight. *)

\* A required setting is present (TRUE) or missing
Configs == [sheetId : BOOLEAN, claudeApiKey : BOOLEAN, monitoredEmails : BOOLEAN]

Collaborators == {"claude", "gmail", "calendar", "sheets"}

\* validateConfig: the names it pushes to errors when it leaves out the test
\* of the monitored addresses
ConfigErrors_NoMonitored(config) ==
    (IF ~config.sheetId THEN {"GOOGLE_SHEET_ID"} ELSE {})
    \cup (IF ~config.claudeApiKey THEN {"CLAUDE_API_KEY"} ELSE {})

\* validateConfig: the names it pushes to errors
ConfigErrors(config) ==
    (IF ~config.sheetId THEN {"GOOGLE_SHEET_ID"} ELSE {})
    \cup (IF ~config.claudeApiKey THEN {"CLAUDE_API_KEY"} ELSE {})
    \cup (IF ~config.monitoredEmails THEN {"MONITORED_EMAILS"} ELSE {})

\* runSyncCycle() has been called and awaits fetchNewEmails()
NewCycle == [pc |-> "fetch", left |-> 0, wrote |-> FALSE]

\* process.exit(code): cycles in flight stay where they are
Exit(p, code) == [p EXCEPT !.phase = "exited", !.exitCode = code, !.timer = FALSE]

\* The process before main runs
BootInit ==
    /\ SchemaReady(<<>>)
    /\ StoreIdle
    /\ IngestIdle
    /\ GroupIdle
    /\ EngineIdle
    /\ ReplayIdle
    /\ probe = NoProbe
    /\ \E config \in Configs, once \in BOOLEAN :
          proc = [phase |-> "boot", config |-> config, once |-> once,
                  inited |-> {}, storeTouched |-> FALSE, timer |-> FALSE,
                  cycles |-> <<>>, started |-> 0, failed |-> 0, exitCode |-> -1]

\* validateConfig (index.js lines 144-157), the first call of initialize
ValidateConfig ==
    /\ proc.phase = "boot"
    /\ proc' = IF ConfigErrors(proc.config) # {}
               THEN Exit(proc, 1)
               ELSE [proc EXCEPT !.phase = "init"]

\* initialize after validateConfig, and printCRMStatus: the four init calls,
\* then ensureCRMSheet and getInvestors, which read (and may write) the
\* store and may throw into the catch block of main
Initialize ==
    /\ proc.phase = "init"
    /\ \E ok \in BOOLEAN :
          LET p == [proc EXCEPT !.inited = Collaborators, !.storeTouched = TRUE]
          IN proc' = IF ok THEN [p EXCEPT !.phase = "ready"] ELSE Exit(p, 1)

\* main with --once: await runSyncCycle()
MainOnce ==
    /\ proc.phase = "ready"
    /\ proc.once
    /\ proc' = [proc EXCEPT !.phase = "once", !.cycles = <<NewCycle>>, !.started = 1]

\* main without --once: startContinuousSync calls runSyncCycle() at once and
\* arms the timer
MainContinuous ==
    /\ proc.phase = "ready"
    /\ ~proc.once
    /\ proc' = [proc EXCEPT !.phase = "running", !.timer = TRUE,
                            !.cycles = <<NewCycle>>, !.started = 1]

\* The setInterval callback: runSyncCycle() is called, whatever is in flight
TimerFires ==
    /\ proc.phase = "running"
    /\ proc.timer
    /\ proc.started < MaxCycles
    /\ Len(proc.cycles) < MaxInflight
    /\ proc' = [proc EXCEPT !.cycles = Append(@, NewCycle), !.started = @ + 1]

\* cycles without the one at position i
Without(cycles, i) == SubSeq(cycles, 1, i - 1) \o SubSeq(cycles, i + 1, Len(cycles))

\* The promise of cycle i settles. With --once main awaits it: exit(0), or
\* the catch block of main logs and exits with 1. In continuous mode a
\* rejection goes to .catch(err => error(...)): it is logged, nothing else
Settle(p, i, ok) ==
    LET q == [p EXCEPT !.cycles = Without(@, i),
                       !.failed = IF ok THEN @ ELSE @ + 1]
    IN IF p.phase = "once" THEN Exit(q, IF ok THEN 0 ELSE 1) ELSE q

\* A cycle in flight exists at position i
InFlight(i) == proc.phase \in {"once", "running"} /\ i \in 1..Len(proc.cycles)

\* runSyncCycle lines 597-605: fetchNewEmails throws (the cycle rejects),
\* returns nothing (the cycle returns) or returns n messages
FetchDone(i) ==
    /\ InFlight(i)
    /\ proc.cycles[i].pc = "fetch"
    /\ \/ proc' = Settle(proc, i, FALSE)
       \/ proc' = Settle(proc, i, TRUE)
       \/ \E n \in 1..MaxBatch :
             proc' = [proc EXCEPT !.cycles[i] = [pc |-> "units", left |-> n, wrote |-> FALSE]]

\* runSyncCycle lines 615-627: one message processed; it adds or updates a
\* record, or is skipped (a throw included)
UnitProcessed(i) ==
    /\ InFlight(i)
    /\ proc.cycles[i].pc = "units"
    /\ \E wrote \in BOOLEAN :
          proc' = [proc EXCEPT
                     !.storeTouched = TRUE,
                     !.cycles[i] = [pc |-> IF @.left = 1 THEN "sort" ELSE "units",
                                    left |-> @.left - 1,
                                    wrote |-> @.wrote \/ wrote]]

\* runSyncCycle lines 629-641: sort and recolour after a change (they can
\* throw: the cycle rejects), then return
CycleReturns(i) ==
    /\ InFlight(i)
    /\ proc.cycles[i].pc = "sort"
    /\ \/ proc' = Settle(proc, i, TRUE)
       \/ proc.cycles[i].wrote /\ proc' = Settle(proc, i, FALSE)

\* The SIGINT / SIGTERM handlers: stopSync(); process.exit(0)
HostSignal ==
    /\ proc.phase = "running"
    /\ proc' = Exit(proc, 0)

HostRest == UNCHANGED <<schemaVars, storeVars, ingestVars, groupVars, engineVars, replayVars, probe>>

HostNext ==
    \/ ValidateConfig /\ HostRest
    \/ Initialize /\ HostRest
    \/ MainOnce /\ HostRest
    \/ MainContinuous /\ HostRest
    \/ TimerFires /\ HostRest
    \/ (\E i \in 1..MaxInflight : FetchDone(i)) /\ HostRest
    \/ (\E i \in 1..MaxInflight : UnitProcessed(i)) /\ HostRest
    \/ (\E i \in 1..MaxInflight : CycleReturns(i)) /\ HostRest
    \/ HostSignal /\ HostRest

SpecHost == BootInit /\ [][HostNext]_vars

----------------------------------------------------------------------------
(* Claims about main *)

\* C21: in one-shot and in continuous mode alike, once a cycle has rejected
\* the process has terminated with a non-zero exit code (so that no further
\* cycle is started).
C21_FailedCycleFatal ==
    proc.failed > 0 => (proc.phase = "exited" /\ proc.exitCode > 0)

\* The store identifier, the classifier key or the monitored-address list
\* is missing
SettingMissing ==
    ~proc.config.sheetId \/ ~proc.config.claudeApiKey \/ ~proc.config.monitoredEmails

\* C22: with a required setting missing the process, once main has run its
\* first step, has exited with code 1, no collaborator initialized and the
\* store neither read nor written; a one-shot run whose cycle succeeded has
\* exited with code 0.
C22_ConfigFailureExitsFirst ==
    /\ (SettingMissing /\ proc.phase # "boot")
          => /\ proc.phase = "exited"
             /\ proc.exitCode = 1
             /\ proc.inited = {}
             /\ ~proc.storeTouched
    /\ (proc.phase = "exited" /\ proc.once /\ proc.started = 1 /\ proc.failed = 0)
          => proc.exitCode = 0

\* The process has exited because only the monitored-address list is missing
C22_Witness ==
    /\ proc.phase = "exited"
    /\ proc.config.sheetId
    /\ proc.config.claudeApiKey
    /\ ~proc.config.monitoredEmails

\* C26: in continuous mode at most one sync cycle is in flight at any time.
C26_CyclesNeverOverlap ==
    Len(proc.cycles) <= 1

----------------------------------------------------------------------------
(* Specification SpecSort: sortByMeetingDate followed by updateRowColors, run
   twice on a sheet with no write in between (the end of two cycles). lastOp
   is the pass that ran last, units the number of completed runs, snapshot
   the sheet at the start and the sheet and colours after the first run. *)

\* Rows that differ in status, meeting date and needs-response flag
SortRows ==
    { NewRow(BuildColumnMap(EngineHeaders), Len(EngineHeaders),
             [BlankInvestor EXCEPT !.name = JaneName, !.meetingStatus = st,
                                   !.meetingDate = dt, !.needsResponse = nr]) :
        st \in { Scheduled, Completed },
        dt \in { <<>>, FormatMeetingDate(<<"2", "0", "2", "5", "-", "0", "1", "-", "1", "0">>),
                 FormatMeetingDate(Today),
                 FormatMeetingDate(<<"2", "0", "2", "5", "-", "0", "1", "-", "2", "0">>) },
        nr \in { Yes, No } }

SortInit ==
    /\ SchemaReady(EngineHeaders)
    /\ sheet \in UNION { [1..k -> SortRows] : k \in 0..MaxRows }
    /\ lastOp = "none"
    /\ lastCall = NoCall
    /\ IngestIdle
    /\ GroupIdle
    /\ HostIdle
    /\ script = NoScript
    /\ snapshot = [orig |-> sheet, first |-> <<>>]
    /\ mode = "idle"
    /\ batch = <<>>
    /\ results = NoResults
    /\ colors = [i \in 1..Len(sheet) |-> "white"]
    /\ units = 0
    /\ lastUnit = NoUnit

\* await sortByMeetingDate(): the rows move, and their colours with them
SortPass ==
    /\ lastOp \in {"none", "color"}
    /\ units < 2
    /\ LET order == SortByMeetingDate(columnMap, sheet)
       IN /\ sheet' = Permute(sheet, order)
          /\ colors' = Permute(colors, order)
    /\ lastOp' = "sort"
    /\ UNCHANGED <<units, snapshot>>

\* await updateRowColors()
ColorPass ==
    /\ lastOp = "sort"
    /\ colors' = UpdateRowColors(columnMap, sheet)
    /\ lastOp' = "color"
    /\ units' = units + 1
    /\ snapshot' = IF units = 0 THEN [snapshot EXCEPT !.first = <<sheet, colors'>>]
                   ELSE snapshot
    /\ UNCHANGED sheet

SortRest == UNCHANGED <<schemaVars, lastCall, ingestVars, groupVars, mode, batch, results, lastUnit, script, hostVars>>

SortNext ==
    \/ SortPass /\ SortRest
    \/ ColorPass /\ SortRest

SpecSort == SortInit /\ [][SortNext]_vars

----------------------------------------------------------------------------
(* Claims about sorting and highlighting *)

\* The highlight of the table: needs-response for a Scheduled record whose
\* flag is set, else upcoming for a Scheduled record dated today or later,
\* else default
TableColor(inv) ==
    LET scheduled == Field(inv, "meetingStatus") = Scheduled
        flagged == Field(inv, "needsResponse") \in { Yes, TrueText }
        dated == Field(inv, "meetingDate") # <<>>
    IN IF scheduled /\ flagged THEN "yellow"
       ELSE IF scheduled /\ dated /\ CellDay(Field(inv, "meetingDate")) >= DayNum(Today)
            THEN "green"
       ELSE "white"

\* C23: after recolouring, every row's highlight is the table's function of
\* the row's current status, meeting date and needs-response flag.
C23_HighlightIsTable ==
    lastOp = "color"
        => \A i \in 1..Len(sheet) :
              colors[i] = TableColor(GetInvestors(columnMap, sheet)[i])

\* Recolouring gave needs-response to a Scheduled record dated in the future
\* and default to a Scheduled record without a date
C23_Witness ==
    /\ lastOp = "color"
    /\ \E i, j \in 1..Len(sheet) :
          /\ colors[i] = "yellow"
          /\ CellDay(Field(GetInvestors(columnMap, sheet)[i], "meetingDate")) > DayNum(Today)
          /\ colors[j] = "white"
          /\ Field(GetInvestors(columnMap, sheet)[j], "meetingStatus") = Scheduled
          /\ Field(GetInvestors(columnMap, sheet)[j], "meetingDate") = <<>>

\* a is a rearrangement of the rows of b
IsRearranged(a, b) ==
    /\ Len(a) = Len(b)
    /\ \E f \in Permutations(1..Len(a)) : \A i \in 1..Len(a) : a[i] = b[f[i]]

\* C24: sorting only rearranges whole rows, and once sort and recolour have
\* run, running them again leaves the order, every cell and every highlight
\* as they were after the first run.
C24_SortColorIdempotent ==
    /\ IsRearranged(sheet, snapshot.orig)
    /\ units >= 1 => <<sheet, colors>> = snapshot.first

\* Sort and recolour ran twice on a sheet whose rows the first sort moved
C24_Witness ==
    /\ units = 2
    /\ sheet # snapshot.orig
    /\ \E i \in 1..Len(colors) : colors[i] # "white"

----------------------------------------------------------------------------
(* Specification SpecRange: the bulk-range fetch of the backfill, gmail.js
   fetchEmailsFromPastDays. Every message of an account's mailbox lies in
   the range; messages.list returns them in pages of PageSize ids (100 in
   the code). Cursors may be stored from earlier polls. *)

\* One messages.list response (lines 142-147): the ids of the page that
\* starts after `pageToken` messages, and the token of the next page, 0 for
\* none
ListPage(a, pageToken) ==
    LET ids == RecentMessageIds(a)
        last == IF pageToken + PageSize < Len(ids) THEN pageToken + PageSize ELSE Len(ids)
    IN [messages |-> SubSeq(ids, pageToken + 1, last),
        nextPageToken |-> IF last < Len(ids) THEN last ELSE 0]

\* The loop stopped after its first messages.list call
RECURSIVE ListAllPages_FirstOnly(_, _, _)
ListAllPages_FirstOnly(a, pageToken, allMessageIds) ==
    allMessageIds \o ListPage(a, pageToken).messages

\* do { ... } while (pageToken) (lines 141-154): allMessageIds after the loop
RECURSIVE ListAllPages(_, _, _)
ListAllPages(a, pageToken, allMessageIds) ==
    LET response == ListPage(a, pageToken)
        ids == allMessageIds \o response.messages
    IN IF response.nextPageToken # 0
       THEN ListAllPages(a, response.nextPageToken, ids)
       ELSE ids

\* The number of messages.list calls the loop makes for an account
PagesOf(a) ==
    IF mailbox[a] = 0 THEN 1 ELSE (mailbox[a] + PageSize - 1) \div PageSize

NoRange == [outcome |-> "none", cursors |-> <<>>, got |-> {}, lost |-> {}]

RangeInit ==
    /\ SchemaReady(<<>>)
    /\ StoreIdle
    /\ ReconIdle
    /\ mailbox \in [Accounts -> 0..MaxMsgs]
    /\ historyIds \in [Accounts -> 0..1]
    /\ ipc = "idle"
    /\ iacct = 0
    /\ lastHistoryId = 0
    /\ currentHistoryId = 0
    /\ allEmails = <<>>
    /\ delivered = {}
    /\ pollLog = [a \in Accounts |-> NoRange]

\* fetchEmailsFromPastDays is called (lines 165-168)
FetchEmailsFromPastDays ==
    /\ ipc = "idle"
    /\ pollLog = [a \in Accounts |-> NoRange]
    /\ ipc' = "range"
    /\ iacct' = 1
    /\ allEmails' = <<>>
    /\ UNCHANGED <<mailbox, historyIds, lastHistoryId, currentHistoryId, delivered, pollLog>>

\* One iteration of the loop over the accounts (lines 168-175):
\* fetchEmailsFromPastDaysForUser lists all pages and fetches the details,
\* leaving out the messages whose messages.get fails; or one of its list
\* calls throws, and the catch block logs the error
FetchEmailsFromPastDaysForUser ==
    /\ ipc = "range"
    /\ iacct <= Len(MonitoredEmails)
    /\ LET a == MonitoredEmails[iacct]
           ids == ListAllPages(a, 0, <<>>)
       IN \/ \E failed \in SUBSET Range(ids) :
                /\ allEmails' = allEmails \o GetEmailDetails(ids, failed)
                /\ pollLog' = [pollLog EXCEPT ![a] =
                                  [outcome |-> "ok", cursors |-> historyIds,
                                   got |-> Range(GetEmailDetails(ids, failed)),
                                   lost |-> failed]]
          \/ \E call \in 1..PagesOf(a) :
                /\ pollLog' = [pollLog EXCEPT ![a] =
                                  [outcome |-> "error", cursors |-> historyIds,
                                   got |-> {}, lost |-> {}]]
                /\ UNCHANGED allEmails
    /\ iacct' = iacct + 1
    /\ UNCHANGED <<mailbox, historyIds, ipc, lastHistoryId, currentHistoryId, delivered>>

\* fetchEmailsFromPastDays returns allEmails (line 177)
RangeReturns ==
    /\ ipc = "range"
    /\ iacct > Len(MonitoredEmails)
    /\ ipc' = "done"
    /\ delivered' = Range(allEmails)
    /\ UNCHANGED <<mailbox, historyIds, iacct, lastHistoryId, currentHistoryId, allEmails, pollLog>>

RangeNext ==
    \/ FetchEmailsFromPastDays /\ UNCHANGED <<schemaVars, storeVars, reconVars>>
    \/ FetchEmailsFromPastDaysForUser /\ UNCHANGED <<schemaVars, storeVars, reconVars>>
    \/ RangeReturns /\ UNCHANGED <<schemaVars, storeVars, reconVars>>

SpecRange == RangeInit /\ [][RangeNext]_vars

----------------------------------------------------------------------------
(* Claims about the bulk-range fetch *)

\* What a finished bulk-range fetch returned: for every account whose
\* fetch did not throw, the messages of all pages except those whose
\* messages.get failed, whatever cursors are stored; and every account was
\* fetched, an earlier account's failure notwithstanding
RangeComplete ==
    ipc = "done"
        => /\ \A a \in Accounts :
                /\ pollLog[a].outcome \in {"ok", "error"}
                /\ pollLog[a].cursors = historyIds
                /\ pollLog[a].outcome = "ok"
                      => /\ pollLog[a].got \cup pollLog[a].lost = Range(RecentMessageIds(a))
                         /\ pollLog[a].got \subseteq delivered
           /\ delivered = UNION { pollLog[a].got : a \in Accounts }

\* C28: the bulk-range fetch never changes a stored cursor, returns the
\* messages of every page of every account whose fetch did not throw, the
\* same whatever cursors are stored, and fetches every account even when an
\* earlier one failed.
C28_RangeFetchIgnoresCursor ==
    []RangeComplete /\ [][historyIds' = historyIds]_vars

\* A finished fetch in which the first account failed and the second, which
\* has a stored cursor, returned the messages of more than one page
C28_Witness ==
    /\ ipc = "done"
    /\ pollLog[MonitoredEmails[1]].outcome = "error"
    /\ pollLog[MonitoredEmails[2]].outcome = "ok"
    /\ historyIds[MonitoredEmails[2]] # 0
    /\ PagesOf(MonitoredEmails[2]) > 1
    /\ Cardinality(pollLog[MonitoredEmails[2]].got) > PageSize

----------------------------------------------------------------------------
(* Specification SpecGroup: groupEmailsByContact applied to a fetched batch *)

GroupInit ==
    /\ SchemaReady(<<>>)
    /\ StoreIdle
    /\ IngestIdle
    /\ EngineIdle
    /\ ReplayIdle
    /\ HostIdle
    /\ groupArg \in Batches(MaxGroup)
    /\ groupMap = <<>>
    /\ grouped = FALSE

\* const byContact = groupEmailsByContact(emails, monitoredEmails)
GroupEmails ==
    /\ ~grouped
    /\ groupMap' = GroupEmailsByContact(groupArg)
    /\ grouped' = TRUE
    /\ UNCHANGED groupArg

GroupNext ==
    GroupEmails /\ UNCHANGED <<schemaVars, storeVars, ingestVars, engineVars, replayVars, hostVars>>

SpecGroup == GroupInit /\ [][GroupNext]_vars

----------------------------------------------------------------------------
(* Counterpart grouping claims *)

\* Positions where a run of address characters starts in a recipient header
RunStarts(to) ==
    { k \in 1..Len(to) : AddrChar(to[k]) /\ (k = 1 \/ ~AddrChar(to[k - 1])) }

\* The address written in the run that starts at k (without an opening angle
\* bracket), <<>> when the run holds no address
AddressOfRun(to, k) ==
    LET s == IF to[k] = "<" THEN k + 1 ELSE k
    IN IF AddrAt(to, s) THEN ToLowerCase(SubSeq(to, s, RunEnd(to, s))) ELSE <<>>

\* The first address of a recipient header that is not a monitored address
FirstExternalRecipient(to) ==
    LET ext == { k \in RunStarts(to) :
                   /\ AddressOfRun(to, k) # <<>>
                   /\ AddressOfRun(to, k) \notin MonitoredSet }
    IN IF ext = {} THEN <<>>
       ELSE AddressOfRun(to, CHOOSE k \in ext : \A j \in ext : k <= j)

\* The counterpart the grouping rule assigns to a message
Counterpart(email) ==
    IF email.from \in MonitoredSet THEN FirstExternalRecipient(email.to)
    ELSE email.from

GroupedUnder(email, contact) ==
    \E k \in 1..Len(groupMap) :
        /\ groupMap[k][1] = contact
        /\ \E i \in 1..Len(groupMap[k][2]) : groupMap[k][2][i] = email

\* C6: every message is grouped under the sender when the sender is not
\* monitored, and otherwise under the first address of its recipient header
\* that is not monitored; a message with such a counterpart is not dropped.
C6_GroupedUnderCounterpart ==
    grouped =>
        \A i \in 1..Len(groupArg) :
            Counterpart(groupArg[i]) # <<>> =>
                GroupedUnder(groupArg[i], Counterpart(groupArg[i]))

\* C7, grouping part: no key of the map groupEmailsByContact returns is a
\* monitored address.
C7_NoMonitoredKey ==
    grouped => \A k \in 1..Len(groupMap) : groupMap[k][1] \notin MonitoredSet

----------------------------------------------------------------------------
(* Specification SpecSchema: discovery over bounded header rows *)

\* Header texts a sheet owner may use: "Name", "email", "Fund",
\* "Last Contact", "Meeting Date", "Meeting Time", a blank cell, "Zip"
HeaderTexts ==
    { <<"N", "a", "m", "e">>,
      <<"e", "m", "a", "i", "l">>,
      <<"F", "u", "n", "d">>,
      <<"L", "a", "s", "t", " ", "C", "o", "n", "t", "a", "c", "t">>,
      <<"M", "e", "e", "t", "i", "n", "g", " ", "D", "a", "t", "e">>,
      <<"M", "e", "e", "t", "i", "n", "g", " ", "T", "i", "m", "e">>,
      <<" ">>,
      <<"Z", "i", "p">> }

HeaderRows ==
    UNION { [1..n -> HeaderTexts] : n \in 0..MaxHeaders }

SchemaInit ==
    /\ headers \in HeaderRows
    /\ columnMap = EmptyMap
    /\ mapHeaders = <<>>
    /\ totalColumns = 0
    /\ discovered = FALSE
    /\ prevHeaders = <<>>
    /\ prevMap = EmptyMap
    /\ prevValid = FALSE
    /\ StoreIdle
    /\ IngestIdle
    /\ ReconIdle

\* discoverColumns (sheets.js lines 52-92): reads row 1 and rebuilds columnMap
DiscoverColumns ==
    /\ columnMap' = BuildColumnMap(headers)
    /\ mapHeaders' = headers
    /\ totalColumns' = Len(headers)
    /\ discovered' = TRUE
    /\ prevHeaders' = mapHeaders
    /\ prevMap' = columnMap
    /\ prevValid' = discovered
    /\ UNCHANGED headers

\* The sheet owner swaps two neighbouring header cells between two discoveries
SwapHeaders ==
    /\ discovered
    /\ headers = mapHeaders
    /\ \E i \in 1..(Len(headers) - 1) :
          headers' = [headers EXCEPT ![i] = headers[i + 1], ![i + 1] = headers[i]]
    /\ prevHeaders' = <<>>
    /\ prevMap' = EmptyMap
    /\ prevValid' = FALSE
    /\ UNCHANGED <<columnMap, mapHeaders, totalColumns, discovered>>

\* The sheet owner rewrites the header row in capital letters
RecaseHeaders ==
    /\ discovered
    /\ headers = mapHeaders
    /\ headers' = [i \in 1..Len(headers) |-> ToUpperCase(headers[i])]
    /\ headers' # headers
    /\ prevHeaders' = <<>>
    /\ prevMap' = EmptyMap
    /\ prevValid' = FALSE
    /\ UNCHANGED <<columnMap, mapHeaders, totalColumns, discovered>>

SchemaNext ==
    \/ DiscoverColumns /\ UNCHANGED <<storeVars, ingestVars, reconVars>>
    \/ SwapHeaders /\ UNCHANGED <<storeVars, ingestVars, reconVars>>
    \/ RecaseHeaders /\ UNCHANGED <<storeVars, ingestVars, reconVars>>

SpecSchema == SchemaInit /\ [][SchemaNext]_vars

----------------------------------------------------------------------------
(* Claims about schema discovery *)

\* Normalised text of a header cell, as discoverColumns compares it
HeaderKey(h) == Trim(ToLowerCase(h))

\* The field-major algorithm of the design text: fields in priority order,
\* each bound to the lowest-index matching header cell not yet claimed
RECURSIVE FieldMajorFrom(_, _, _)
FieldMajorFrom(map, hdrs, k) ==
    IF k > Len(FieldOrder) THEN map
    ELSE LET claimed == { map[f] : f \in DOMAIN map }
             cands == { i \in 0..(Len(hdrs) - 1) :
                          /\ i \notin claimed
                          /\ AliasMatch(FieldOrder[k], HeaderKey(hdrs[i + 1])) }
             lowest == CHOOSE i \in cands : \A j \in cands : i <= j
         IN IF cands = {} THEN FieldMajorFrom(map, hdrs, k + 1)
            ELSE FieldMajorFrom(
                     [f \in (DOMAIN map) \cup {FieldOrder[k]} |->
                         IF f = FieldOrder[k] THEN lowest ELSE map[f]],
                     hdrs, k + 1)

FieldMajorMap(hdrs) == FieldMajorFrom(EmptyMap, hdrs, 1)

\* C8: after discoverColumns, the column map equals the map of the declared
\* field-major algorithm (each field, in priority order, bound to the
\* lowest-index unclaimed header cell that matches it; a bound field is never
\* rebound by a later matching header cell).
C8_FieldMajorDiscovery ==
    discovered => columnMap = FieldMajorMap(mapHeaders)

IdentityFields == {"name", "email", "company"}

\* The text of the header cell a field is bound to (<<>> when unbound)
BoundText(map, hdrs, f) ==
    IF f \in DOMAIN map THEN <<HeaderKey(hdrs[map[f] + 1])>> ELSE <<>>

\* Number of cells of a header row whose lower-cased text is key
Occurrences(hdrs, key) ==
    Cardinality({ i \in 1..Len(hdrs) : ToLowerCase(hdrs[i]) = key })

\* Two header rows carry the same texts, up to order and letter case
SameTexts(h1, h2) ==
    /\ Len(h1) = Len(h2)
    /\ \A i \in 1..Len(h1) :
          Occurrences(h1, ToLowerCase(h1[i])) = Occurrences(h2, ToLowerCase(h1[i]))

SameIdentityBinding ==
    /\ \A f \in IdentityFields :
          BoundText(prevMap, prevHeaders, f) = BoundText(columnMap, mapHeaders, f)
    /\ (prevHeaders = mapHeaders => prevMap = columnMap)

\* C9 as stated: for any two header rows with the same texts in a different
\* order and/or letter case, name, email and company are bound to header cells
\* with the same text, and rediscovery of an unchanged row gives the same map.
C9_OrderIndependentBinding ==
    (discovered /\ prevValid /\ SameTexts(prevHeaders, mapHeaders))
        => SameIdentityBinding

\* No two header cells with different texts select the same identity field
OneTextPerIdentityField(hdrs) ==
    LET picks == { <<MatchField(HeaderKey(hdrs[i])), HeaderKey(hdrs[i])>> :
                      i \in 1..Len(hdrs) }
    IN \A p, q \in picks :
           (/\ p[1] # 0
            /\ p[1] = q[1]
            /\ FieldOrder[p[1]] \in IdentityFields)
               => p[2] = q[2]

\* C9 amended: the binding of name, email and company is independent of order
\* and letter case when no two header cells with different texts select the
\* same one of these fields; rediscovery of an unchanged row gives the same map.
C9_OrderIndependentWhenUnambiguous ==
    (/\ discovered /\ prevValid
     /\ SameTexts(prevHeaders, mapHeaders)
     /\ OneTextPerIdentityField(mapHeaders))
        => SameIdentityBinding

\* C9 witness: a reordered or recased row was rediscovered and name and email
\* are bound in both maps, name at a different column than before
C9_Witness ==
    /\ discovered /\ prevValid
    /\ SameTexts(prevHeaders, mapHeaders)
    /\ prevHeaders # mapHeaders
    /\ OneTextPerIdentityField(mapHeaders)
    /\ {"name", "email"} \subseteq DOMAIN columnMap
    /\ {"name", "email"} \subseteq DOMAIN prevMap
    /\ columnMap["name"] # prevMap["name"]

\* The fields whose alias sets match the header cell at a 0-based column
FieldsMatching(hdrs, index) ==
    { k \in 1..Len(FieldOrder) : AliasMatch(FieldOrder[k], HeaderKey(hdrs[index + 1])) }

C39_BlankHeadersUnmapped ==
    discovered =>
        \A f \in DOMAIN columnMap : HeaderKey(mapHeaders[columnMap[f] + 1]) # <<>>

----------------------------------------------------------------------------
(* Specification SpecStore: the store adapter on bounded sheets *)

hName == <<"N", "a", "m", "e">>
hEmail == <<"E", "m", "a", "i", "l">>
hFund == <<"F", "u", "n", "d">>
hZip == <<"Z", "i", "p">>

\* Header rows with at least one column no field is bound to ("Zip")
StoreLayouts ==
    { <<hName, hZip, hEmail>>,
      <<hZip, hName, hFund>>,
      <<hName, hEmail, hZip>> }

OldCell == <<"o">>
NewCell == <<"n">>

\* Fields a caller may name in updates; "notes" has no column in StoreLayouts
UpdateFields == {"name", "email", "notes"}

UpdateSets ==
    UNION { [fs -> {<<>>, NewCell}] : fs \in SUBSET UpdateFields }

StoreInit ==
    /\ \E hdrs \in StoreLayouts : SchemaReady(hdrs)
    /\ \E n \in 0..1 : sheet \in [1..n -> [1..3 -> {<<>>, OldCell}]]
    /\ lastOp = "none"
    /\ lastCall = NoCall
    /\ IngestIdle
    /\ ReconIdle

\* A call of updateInvestor on an existing row; the batchUpdate request either
\* succeeds or fails as a whole
StoreUpdateInvestor ==
    \E rowIndex \in 2..(Len(sheet) + 1), updates \in UpdateSets, ok \in BOOLEAN :
        /\ sheet' = IF ok THEN UpdateInvestor(columnMap, sheet, rowIndex, updates)
                          ELSE sheet
        /\ lastOp' = "updateInvestor"
        /\ lastCall' = [rowIndex |-> rowIndex, fields |-> DOMAIN updates]

\* A call of addInvestor
StoreAddInvestor ==
    /\ Len(sheet) < MaxRows
    /\ \E investor \in [UpdateFields -> {<<>>, NewCell}] :
          sheet' = AddInvestor(columnMap, totalColumns, sheet, investor)
    /\ lastOp' = "addInvestor"
    /\ lastCall' = [rowIndex |-> Len(sheet) + 2, fields |-> UpdateFields]

StoreNext ==
    \/ StoreUpdateInvestor /\ UNCHANGED <<schemaVars, ingestVars, reconVars>>
    \/ StoreAddInvestor /\ UNCHANGED <<schemaVars, ingestVars, reconVars>>

SpecStore == StoreInit /\ [][StoreNext]_vars

\* Columns bound to one of the given fields (0-based)
BoundColumns(map, fields) == { map[f] : f \in fields \cap DOMAIN map }

\* C10: a call updateInvestor(rowIndex, updates) changes no cell outside row
\* rowIndex and, in that row, no cell outside the columns bound to the fields
\* named in updates; unmapped columns and all other rows are unchanged, and a
\* field of updates without a bound column changes nothing.
C10_UpdateTouchesOnlyNamedCells ==
    [][lastOp' = "updateInvestor" =>
          /\ Len(sheet') = Len(sheet)
          /\ \A r \in 1..Len(sheet) : \A c \in 1..Len(sheet[r]) :
                sheet'[r][c] # sheet[r][c] =>
                    /\ r + 1 = lastCall'.rowIndex
                    /\ (c - 1) \in BoundColumns(columnMap, lastCall'.fields)]_vars

\* C10 witness: updateInvestor was called for row 2 with a bound field (name)
\* and an unbound field (notes); the name cell holds the written value while
\* the unmapped cell of the row and another row still hold their old content
C10_Witness ==
    /\ lastOp = "updateInvestor"
    /\ lastCall.rowIndex = 2
    /\ lastCall.fields = {"name", "notes"}
    /\ Len(sheet) = 2
    /\ sheet[1][columnMap["name"] + 1] = NewCell
    /\ \E c \in 1..3 :
          /\ (c - 1) \notin BoundColumns(columnMap, DOMAIN columnMap)
          /\ sheet[1][c] = OldCell

----------------------------------------------------------------------------
(* Claims about ingestion *)

\* C3: no message is passed over by a cursor advance: when a poll was entered
\* with a stored cursor, every message the upstream added after that cursor and
\* that the account's cursor has now moved past has been returned to the caller
\* of fetchNewEmails, also when the details of an individual message could not
\* be fetched.
C3_NoMessagePassedOver ==
    \A a \in Accounts :
        (pollLog[a].before # <<>> /\ pollLog[a].before[a] > 0) =>
            \A i \in pollLog[a].before[a]..(historyIds[a] - 1) :
                <<a, i>> \in delivered \cup Range(allEmails)

\* C4: when the delta request of a poll fails with 404, the cursor is cleared,
\* the retry takes the bootstrap path (the delta request is made once, the
\* bootstrap list at most once and exactly once on normal return), the 404 is
\* not the error the caller sees, and on normal return a cursor is stored.
C4_InvalidationRecovered ==
    \A a \in Accounts :
        pollLog[a].invalidated =>
            /\ pollLog[a].delta = 1
            /\ pollLog[a].boot <= 1
            /\ pollLog[a].err # <<"history.list", 404>>
            /\ (pollLog[a].outcome = "none" /\ pollLog[a].boot = 0) =>
                   (historyIds[a] = 0 /\ lastHistoryId = 0)
            /\ pollLog[a].outcome = "ok" =>
                   (pollLog[a].boot = 1 /\ pollLog[a].after[a] > 0)

\* C4 witness: a poll whose delta request got 404 returned normally with
\* messages from the bootstrap path
C4_Witness ==
    \E a \in Accounts :
        /\ pollLog[a].invalidated
        /\ pollLog[a].outcome = "ok"
        /\ pollLog[a].got # {}
        /\ pollLog[a].before[a] > 0

\* C5: when the poll of one account fails, every other account is still polled
\* and its messages are in the result of fetchNewEmails; the failing account's
\* cursor is not advanced and no other account's cursor changes during the
\* failed poll.
C5_AccountIsolation ==
    /\ ipc = "done" =>
          \A a \in Accounts :
              /\ pollLog[a].outcome \in {"ok", "error"}
              /\ pollLog[a].outcome = "ok" => pollLog[a].got \subseteq Range(allEmails)
    /\ \A a \in Accounts :
          pollLog[a].outcome = "error" =>
              /\ pollLog[a].after[a] <= pollLog[a].before[a]
              /\ \A b \in Accounts \ {a} : pollLog[a].after[b] = pollLog[a].before[b]

\* C5 witness: a fetch in which the first account's poll failed with a stored
\* cursor and the second account's poll returned messages
C5_Witness ==
    /\ ipc = "done"
    /\ pollLog[Avi].outcome = "error"
    /\ pollLog[Avi].before[Avi] > 0
    /\ pollLog[Yuval].outcome = "ok"
    /\ pollLog[Yuval].got # {}
    /\ pollLog[Yuval].got \subseteq Range(allEmails)

\* C27 (as stated): a poll entered with no stored cursor ends, however it
\* ends, with a cursor stored for its account.
C27_BootstrapAlwaysYieldsCursor ==
    \A a \in Accounts :
        (pollLog[a].outcome # "none" /\ pollLog[a].before[a] = 0)
            => pollLog[a].after[a] # 0

\* C27 (amended): after a poll that returned normally, whether it took the
\* bootstrap path, the delta path or recovered from an invalidated cursor, a
\* cursor is stored for its account.
C27_ReturnedPollHasCursor ==
    \A a \in Accounts :
        pollLog[a].outcome = "ok" => pollLog[a].after[a] # 0

\* A poll entered without a cursor took the bootstrap path and returned
C27_Witness ==
    \E a \in Accounts :
        /\ pollLog[a].outcome = "ok"
        /\ pollLog[a].before[a] = 0
        /\ pollLog[a].boot = 1

----------------------------------------------------------------------------
(* Specification SpecResolve: the two lookups of processEmail, sheets.js
   findInvestorByEmail and findInvestorByName, applied to a candidate address
   and display name against a sheet of records entered earlier. *)

AlSmith == <<"A", "l", " ", "S", "m", "i", "t", "h">>
Madonna == <<"M", "a", "d", "o", "n", "n", "a">>
SmithAl == <<"S", "m", "i", "t", "h", " ", "A", "l">>
AliceAddr == <<"a", "l", "i", "c", "e", "@", "x", ".", "c", "o">>
MadonnaAddr == <<"m", "a", "d", "o", "n", "n", "a", "@", "m", ".", "c", "o">>

\* Records the sheet may hold: with and without an address, names of one and
\* of two words
ResolveRecords ==
    { RecordJane } \cup
    { [BlankInvestor EXCEPT !.name = n] : n \in { JohnName, AlSmith, Madonna } }

\* The senders looked up: address and display name
ResolveAddrs == { JaneAddr, AliceAddr, MadonnaAddr }

ResolveNames == { JaneName, Madonna, SmithAl, AviName, <<>> }

ResolveInit ==
    /\ \E hdrs \in EngineLayouts :
          /\ SchemaReady(hdrs)
          /\ \E recs \in UNION { [1..k -> ResolveRecords] : k \in 0..MaxRows } :
                sheet = [i \in DOMAIN recs |->
                            NewRow(BuildColumnMap(hdrs), Len(hdrs), recs[i])]
    /\ lastOp = "none"
    /\ lastCall = NoCall
    /\ IngestIdle
    /\ GroupIdle
    /\ EngineIdle
    /\ ReplayIdle
    /\ proc = NoProc
    /\ \E a \in ResolveAddrs, n \in ResolveNames :
          probe = [entry |-> "none", contact |-> a, name |-> n, out |-> 0]

\* processEmail line 427: findInvestorByEmail(email.from)
ResolveByEmail ==
    /\ probe.entry = "none"
    /\ probe' = [probe EXCEPT !.entry = "email",
                              !.out = FindInvestorByEmail(columnMap, sheet, probe.contact)]

\* processEmail line 538: findInvestorByName(investorName)
ResolveByName ==
    /\ probe.entry = "none"
    /\ probe' = [probe EXCEPT !.entry = "name",
                              !.out = FindInvestorByName(columnMap, sheet, probe.name)]

ResolveRest == UNCHANGED <<schemaVars, storeVars, ingestVars, groupVars, engineVars, replayVars, proc>>

ResolveNext ==
    \/ ResolveByEmail /\ ResolveRest
    \/ ResolveByName /\ ResolveRest

SpecResolve == ResolveInit /\ [][ResolveNext]_vars

----------------------------------------------------------------------------
(* Claims about the lookups *)

\* The records the lookups scan
Scanned == GetInvestors(columnMap, sheet)

\* The address's local part with ".", "_" and "-" read as spaces
PseudoName == ReplaceSeparators(BeforeAt(ToLowerCase(probe.contact)))

\* A record holds exactly the candidate address
HasAddress(i) ==
    /\ GetColumnIndex(columnMap, "email") >= 0
    /\ Field(Scanned[i], "email") = ToLowerCase(probe.contact)

\* The local-part rule as declared: the pseudo-name lies within the record's
\* whole lower-cased name or the whole name lies within the pseudo-name
WholeNameRule(i) ==
    LET whole == Trim(ToLowerCase(Field(Scanned[i], "name")))
    IN /\ Field(Scanned[i], "name") # <<>>
       /\ \/ Includes(whole, PseudoName)
          \/ Includes(PseudoName, whole)

\* C29: when no record holds the candidate address, the address lookup finds
\* a record only if the pseudo-name made from the local part is a substring of
\* that record's whole lower-cased name or the whole name is a substring of
\* the pseudo-name; containing just the record's first name token is not enough
C29_LocalPartNeedsWholeName ==
    (/\ probe.entry = "email"
     /\ probe.out # 0
     /\ \A i \in 1..Len(Scanned) : ~HasAddress(i))
    => WholeNameRule(probe.out)

\* The whitespace-separated tokens of the candidate display name
NameTokens == SplitSpaces(Trim(ToLowerCase(probe.name)), <<>>)

\* Every token of the candidate name occurs in the record's lower-cased name
AllTokensIn(i) ==
    /\ Field(Scanned[i], "name") # <<>>
    /\ \A k \in 1..Len(NameTokens) :
          Includes(ToLowerCase(Field(Scanned[i], "name")), NameTokens[k])

\* C30: a candidate display name of fewer than two tokens never produces a
\* name match; with two or more tokens the name lookup finds a record exactly
\* when some record's lower-cased name contains every token, and the record
\* found is such a record
C30_NameRuleNeedsTwoTokens ==
    probe.entry = "name" =>
        IF Len(NameTokens) < 2
        THEN probe.out = 0
        ELSE /\ probe.out # 0 <=> \E i \in 1..Len(Scanned) : AllTokensIn(i)
             /\ probe.out # 0 => AllTokensIn(probe.out)

----------------------------------------------------------------------------
(* Specification SpecRace: the cycles of continuous mode on the sheet. Each
   cycle handles one message: processEmail looks the sender up, awaits the
   classifier and the calendar, then writes; runSyncCycle sorts at its end.
   Every await lets the steps of another cycle in. *)

\* Messages a cycle may have fetched and the classifier's answers to them
RaceMessages == { m \in MessagePool : m.id \in { 1, 2, 3 } }

RaceAnalyses == { a \in Analyses : a.parsed /\ a.isRelevant /\ a.isVCInvestor /\ a.noteSummary # <<>> }

\* The value of existingInvestor when the lookup returned null
NoInvestor == [rowIndex |-> 0, raw |-> <<>>, f |-> <<>>]

RaceCycle(email, analysis) ==
    [pc |-> "lookup", email |-> email, analysis |-> analysis,
     ex |-> 0, existingInvestor |-> NoInvestor, changed |-> FALSE]

\* What the last step did: the sheet row written, the name of the record the
\* write was meant for and the name found in the row when it was written
RaceProbe(entry, row, held, hit) ==
    [entry |-> entry, row |-> row, held |-> held, hit |-> hit]

RaceInit ==
    /\ SchemaReady(EngineHeaders)
    /\ sheet \in InitialSheets(EngineHeaders)
    /\ lastOp = "none"
    /\ lastCall = NoCall
    /\ IngestIdle
    /\ GroupIdle
    /\ EngineIdle
    /\ ReplayIdle
    /\ probe = RaceProbe("none", 0, <<>>, <<>>)
    /\ proc = [phase |-> "running", cycles |-> <<>>, started |-> 0]

\* startContinuousSync: runSyncCycle() is called at once and again by every
\* tick of the interval timer, whether or not an earlier cycle has returned
RaceCycleStarts ==
    /\ proc.started < MaxCycles
    /\ Len(proc.cycles) < MaxInflight
    /\ \E m \in RaceMessages, a \in RaceAnalyses :
          proc' = [proc EXCEPT !.cycles = Append(@, RaceCycle(m, a)),
                               !.started = @ + 1]
    /\ probe' = RaceProbe("start", 0, <<>>, <<>>)
    /\ UNCHANGED sheet

\* processEmail line 427: existingInvestor = await findInvestorByEmail(email.from)
RaceLookup(i) ==
    LET c == proc.cycles[i]
        ex == FindInvestorByEmail(columnMap, sheet, c.email.from)
        found == IF ex # 0 THEN GetInvestors(columnMap, sheet)[ex] ELSE NoInvestor
    IN /\ c.pc = "lookup"
       /\ proc' = [proc EXCEPT !.cycles[i] =
                      [c EXCEPT !.pc = "write", !.ex = ex, !.existingInvestor = found]]
       /\ probe' = RaceProbe("lookup", found.rowIndex, <<>>, <<>>)
       /\ UNCHANGED sheet

\* processEmail lines 488-587 after the classifier and the calendar have
\* answered: the two updateInvestor calls on existingInvestor.rowIndex, or the
\* lookup by name followed by an update or an append
RaceWrite(i) ==
    LET c == proc.cycles[i]
        inv == c.existingInvestor
        d == DeriveSync(c.analysis, NoMeeting, NoMeeting)
        out == IF c.ex # 0
               THEN WriteUpdate(columnMap, sheet, inv.rowIndex,
                                UpdatesExisting(inv, c.email, c.analysis, d),
                                c.analysis.noteSummary # <<>>,
                                JoinNotes(Field(inv, "notes"), c.analysis.noteSummary),
                                "none", c.email.from)
               ELSE ProcessEmailFound(columnMap, totalColumns, sheet, c.email, 0,
                                      c.analysis, NoMeeting, NoMeeting, "none")
    IN /\ c.pc = "write"
       /\ sheet' = out.rows
       /\ proc' = [proc EXCEPT !.cycles[i] =
                      [c EXCEPT !.pc = "sort",
                                !.changed = out.action \in { "added", "updated" }]]
       /\ probe' = IF c.ex # 0
                   THEN RaceProbe("write", inv.rowIndex, Field(inv, "name"),
                                  Field(GetInvestors(columnMap, sheet)[inv.rowIndex - 1], "name"))
                   ELSE RaceProbe("fresh", out.row, <<>>, <<>>)

\* runSyncCycle lines 629-641: sortByMeetingDate when a record was added or
\* updated, then the cycle returns
RaceSort(i) ==
    LET c == proc.cycles[i]
    IN /\ c.pc = "sort"
       /\ sheet' = IF c.changed
                   THEN Permute(sheet, SortByMeetingDate(columnMap, sheet))
                   ELSE sheet
       /\ proc' = [proc EXCEPT !.cycles = Without(@, i)]
       /\ probe' = RaceProbe("sort", 0, <<>>, <<>>)

RaceRest == UNCHANGED <<schemaVars, lastOp, lastCall, ingestVars, groupVars, engineVars, replayVars>>

RaceNext ==
    \/ RaceCycleStarts /\ RaceRest
    \/ \E i \in 1..Len(proc.cycles) : RaceLookup(i) /\ RaceRest
    \/ \E i \in 1..Len(proc.cycles) : RaceWrite(i) /\ RaceRest
    \/ \E i \in 1..Len(proc.cycles) : RaceSort(i) /\ RaceRest

SpecRace == RaceInit /\ [][RaceNext]_vars

\* C25: whenever a unit writes to the row index that its earlier lookup
\* returned, the row still holds the record that the lookup found, also when
\* the timer has started a cycle while an earlier one is still running
C25_RowReferencesStayValid ==
    probe.entry = "write" => probe.hit = probe.held

----------------------------------------------------------------------------
(* Specification SpecWith: determineWith of sync.js (one message) and of
   backfill.js (the messages of a contact) on messages whose participants
   include the roster members and mailboxes with similar addresses. *)

XaviAddr == <<"x", "a", "v", "i", "@", "q", ".", "c", "o">>

\* Messages between outside senders and the roster
WithMessages ==
    { Message(7, from, <<>>, to, Today) :
        from \in { JaneAddr, XaviAddr, Avi },
        to \in { Avi, Yuval, ToAviThenJohn, ToJaneNamed } }

WithInit ==
    /\ SchemaReady(<<>>)
    /\ StoreIdle
    /\ IngestIdle
    /\ GroupIdle
    /\ EngineIdle
    /\ ReplayIdle
    /\ proc = NoProc
    /\ \E msgs \in UNION { [1..k -> WithMessages] : k \in 1..MaxBatch } :
          probe = [entry |-> "none", msgs |-> msgs, out |-> <<>>]

\* processEmail line 483: determineWith(email)
WithOfEmail ==
    /\ probe.entry = "none"
    /\ probe' = [entry |-> "sync", msgs |-> <<probe.msgs[1]>>,
                 out |-> DetermineWith(<<probe.msgs[1]>>)]

\* processContact line 150: determineWith(emails)
WithOfEmails ==
    /\ probe.entry = "none"
    /\ probe' = [probe EXCEPT !.entry = "backfill", !.out = DetermineWith(probe.msgs)]

WithRest == UNCHANGED <<schemaVars, storeVars, ingestVars, groupVars, engineVars, replayVars, proc>>

WithNext ==
    \/ WithOfEmail /\ WithRest
    \/ WithOfEmails /\ WithRest

SpecWith == WithInit /\ [][WithNext]_vars

\* addr stands in text as a whole address: not preceded and not followed by a
\* character that can belong to an address
NamesAddress(text, addr) ==
    \E i \in 0..(Len(text) - Len(addr)) :
        /\ SubSeq(text, i + 1, i + Len(addr)) = addr
        /\ (i = 0 \/ ~AddrChar(text[i]) \/ text[i] = "<")
        /\ (i + Len(addr) = Len(text) \/ ~AddrChar(text[i + Len(addr) + 1]))

\* The roster member's address is the address of a sender or recipient of
\* one of the unit's messages
Participates(member) ==
    \E k \in 1..Len(probe.msgs) :
        \/ NamesAddress(ToLowerCase(probe.msgs[k].from), member)
        \/ NamesAddress(ToLowerCase(probe.msgs[k].to), member)

\* C34: the attributed member is "Avi" or "Yuval" exactly when that member's
\* address, and not the other's, is the address of a participant of the
\* unit's messages, and "Both" when both or none are; an address that only
\* contains a roster address does not count.
C34_Attribution ==
    probe.entry \in { "sync", "backfill" } =>
        probe.out = (IF Participates(Avi) /\ ~Participates(Yuval) THEN AviName
                     ELSE IF Participates(Yuval) /\ ~Participates(Avi) THEN YuvalName
                     ELSE Both)

----------------------------------------------------------------------------
(* Specification SpecCalendar: the calendar service for several monitored
   calendars: findMeetingsWithAttendee, getNextMeetingWithAttendee and
   getLastMeetingWithAttendee. An event has one id, start and status on every
   calendar that holds it. *)

MaxEvents == 2

\* new Date(s) for the start of an event, in minutes since 1970 (years 1970
\* to 2099): an ISO date-time, or an ISO date for an all-day event (midnight
\* UTC)
DateStamp(s) ==
    LET year == NumVal(SubSeq(s, 1, 4))
        month == NumVal(SubSeq(s, 6, 7))
        daysBefore == <<0, 31, 59, 90, 120, 151, 181, 212, 243, 273, 304, 334>>
        leap == IF month > 2 /\ year % 4 = 0 THEN 1 ELSE 0
        days == (year - 1970) * 365 + ((year - 1969) \div 4) + daysBefore[month]
                + leap + NumVal(SubSeq(s, 9, 10)) - 1
    IN days * 1440
    + (IF IsIsoDateTime(s)
       THEN NumVal(SubSeq(s, 12, 13)) * 60 + NumVal(SubSeq(s, 15, 16))
       ELSE 0)

\* new Date() at the time of the lookups: noon of the day of the run
NowText == Today \o <<"T", "1", "2", ":", "0", "0", ":", "0", "0", "Z">>

\* Starts of events: five days ago, this morning, in three days, and an
\* all-day event in five days
EventStarts ==
    { LastMeeting.start,
      Today \o <<"T", "0", "9", ":", "0", "0", ":", "0", "0", "Z">>,
      NextMeeting.start,
      <<"2", "0", "2", "5", "-", "0", "1", "-", "2", "0">> }

\* What events.list returns of an event: start, status, and whether the
\* counterpart is among its attendees (the query q also matches other text)
EventKinds ==
    { [start |-> st, status |-> status, attendee |-> TRUE] :
        st \in EventStarts, status \in { "confirmed", "cancelled" } }
    \cup { [start |-> NextMeeting.start, status |-> "confirmed", attendee |-> FALSE] }

\* The events of the ids in a set, ordered by start time (orderBy: 'startTime')
RECURSIVE ByStartTime(_, _)
ByStartTime(events, ids) ==
    IF ids = {} THEN <<>>
    ELSE LET first == CHOOSE i \in ids :
                 \A j \in ids :
                     \/ DateStamp(events[i].start) < DateStamp(events[j].start)
                     \/ (DateStamp(events[i].start) = DateStamp(events[j].start) /\ i <= j)
         IN <<first>> \o ByStartTime(events, ids \ {first})

\* findMeetingsWithAttendeeForUser: events.list between now - daysBack and
\* now + daysAhead (events that start before timeMax; every event here ends
\* after timeMin), the attendee filter, and the meeting objects
FindMeetingsWithAttendeeForUser(world, calendarEmail, daysBack, daysAhead) ==
    LET timeMax == DateStamp(NowText) + daysAhead * 1440
        listed == ByStartTime(world.events,
                      { i \in world.on[calendarEmail] :
                            DateStamp(world.events[i].start) < timeMax })
        filtered == SelectSeq(listed, LAMBDA i : world.events[i].attendee)
    IN [k \in 1..Len(filtered) |->
           [id |-> filtered[k],
            start |-> world.events[filtered[k]].start,
            calendarOwner |-> calendarEmail,
            isPast |-> DateStamp(world.events[filtered[k]].start) < DateStamp(NowText),
            status |-> world.events[filtered[k]].status]]

\* The loop of findMeetingsWithAttendee over calendarClients.keys(): a
\* calendar whose lookup throws is logged and left out
RECURSIVE AllMeetings(_, _, _, _)
AllMeetings(world, k, daysBack, daysAhead) ==
    IF k > Len(MonitoredEmails) THEN <<>>
    ELSE (IF MonitoredEmails[k] \in world.down THEN <<>>
          ELSE FindMeetingsWithAttendeeForUser(world, MonitoredEmails[k], daysBack, daysAhead))
         \o AllMeetings(world, k + 1, daysBack, daysAhead)

\* [...new Map(allMeetings.map(m => [m.id, m])).values()]: one meeting per
\* id, at the place of its first occurrence, with the value of its last
UniqueMeetings(allMeetings) ==
    LET firsts == SelectSeq([k \in 1..Len(allMeetings) |-> k],
                            LAMBDA k : \A j \in 1..(k - 1) :
                                           allMeetings[j].id # allMeetings[k].id)
    IN [n \in 1..Len(firsts) |->
           allMeetings[MaxOf({ j \in 1..Len(allMeetings) :
                                 allMeetings[j].id = allMeetings[firsts[n]].id })]]

FindMeetingsWithAttendee(world, daysBack, daysAhead) ==
    UniqueMeetings(AllMeetings(world, 1, daysBack, daysAhead))

\* Array.prototype.sort with a comparator on the start: stable insertion of
\* the meetings, ascending or descending
RECURSIVE SortByStart(_, _)
SortByStart(meetings, descending) ==
    IF meetings = <<>> THEN <<>>
    ELSE LET rest == SortByStart(SubSeq(meetings, 1, Len(meetings) - 1), descending)
             m == meetings[Len(meetings)]
             after == { k \in 1..Len(rest) :
                          IF descending
                          THEN DateStamp(rest[k].start) < DateStamp(m.start)
                          ELSE DateStamp(rest[k].start) > DateStamp(m.start) }
             at == IF after = {} THEN Len(rest) + 1 ELSE MinOf(after)
         IN SubSeq(rest, 1, at - 1) \o <<m>> \o SubSeq(rest, at, Len(rest))

\* getNextMeetingWithAttendee without its sort: the first upcoming meeting in
\* the order the calendars were read
GetNextMeetingWithAttendee_Unsorted(world) ==
    LET meetings == FindMeetingsWithAttendee(world, 0, 60)
        upcoming == SelectSeq(meetings, LAMBDA m : ~m.isPast /\ m.status # "cancelled")
    IN IF upcoming = <<>> THEN <<>> ELSE <<upcoming[1]>>

\* getNextMeetingWithAttendee (lines 183-192); <<>> stands for null
GetNextMeetingWithAttendee(world) ==
    LET meetings == FindMeetingsWithAttendee(world, 0, 60)
        upcoming == SelectSeq(meetings, LAMBDA m : ~m.isPast /\ m.status # "cancelled")
    IN IF upcoming = <<>> THEN <<>> ELSE <<SortByStart(upcoming, FALSE)[1]>>

\* getLastMeetingWithAttendee (lines 197-206)
GetLastMeetingWithAttendee(world) ==
    LET meetings == FindMeetingsWithAttendee(world, 60, 0)
        past == SelectSeq(meetings, LAMBDA m : m.isPast /\ m.status # "cancelled")
    IN IF past = <<>> THEN <<>> ELSE <<SortByStart(past, TRUE)[1]>>

CalendarInit ==
    /\ SchemaReady(<<>>)
    /\ StoreIdle
    /\ IngestIdle
    /\ GroupIdle
    /\ EngineIdle
    /\ ReplayIdle
    /\ proc = NoProc
    /\ \E events \in [1..MaxEvents -> EventKinds],
          on \in [Accounts -> SUBSET (1..MaxEvents)],
          down \in SUBSET Accounts :
          probe = [entry |-> "none",
                   world |-> [events |-> events, on |-> on, down |-> down],
                   out |-> <<>>]

\* processEmail: nextMeeting = await getNextMeetingWithAttendee(contactEmail)
NextMeetingLookup ==
    /\ probe.entry = "none"
    /\ probe' = [probe EXCEPT !.entry = "next",
                              !.out = GetNextMeetingWithAttendee(probe.world)]

\* processEmail: lastMeeting = await getLastMeetingWithAttendee(contactEmail)
LastMeetingLookup ==
    /\ probe.entry = "none"
    /\ probe' = [probe EXCEPT !.entry = "last",
                              !.out = GetLastMeetingWithAttendee(probe.world)]

CalendarRest == UNCHANGED <<schemaVars, storeVars, ingestVars, groupVars, engineVars, replayVars, proc>>

CalendarNext ==
    \/ NextMeetingLookup /\ CalendarRest
    \/ LastMeetingLookup /\ CalendarRest

SpecCalendar == CalendarInit /\ [][CalendarNext]_vars

\* The ids of the events with the counterpart as attendee on the calendars
\* that answered
AttendedIds ==
    { i \in 1..MaxEvents :
        /\ probe.world.events[i].attendee
        /\ \E a \in Accounts \ probe.world.down : i \in probe.world.on[a] }

StartOf(i) == DateStamp(probe.world.events[i].start)

\* Not cancelled and starting in the future
UpcomingIds ==
    { i \in AttendedIds : /\ probe.world.events[i].status # "cancelled"
                          /\ StartOf(i) >= DateStamp(NowText) }

\* Not cancelled and already started
StartedIds ==
    { i \in AttendedIds : /\ probe.world.events[i].status # "cancelled"
                          /\ StartOf(i) < DateStamp(NowText) }

\* C35: the next-meeting lookup returns null when no attended event is
\* upcoming and otherwise an upcoming event none of which starts earlier; the
\* last-meeting lookup returns null when no attended event has started and
\* otherwise a started event none of which starts later; neither returns a
\* cancelled event.
C35_SignalSelection ==
    /\ probe.entry = "next" =>
          IF UpcomingIds = {} THEN probe.out = <<>>
          ELSE /\ Len(probe.out) = 1
               /\ probe.out[1].id \in UpcomingIds
               /\ probe.out[1].start = probe.world.events[probe.out[1].id].start
               /\ \A i \in UpcomingIds : StartOf(probe.out[1].id) <= StartOf(i)
    /\ probe.entry = "last" =>
          IF StartedIds = {} THEN probe.out = <<>>
          ELSE /\ Len(probe.out) = 1
               /\ probe.out[1].id \in StartedIds
               /\ probe.out[1].start = probe.world.events[probe.out[1].id].start
               /\ \A i \in StartedIds : StartOf(probe.out[1].id) >= StartOf(i)

\* C35 witness: two calendars answered with different upcoming events, the
\* later one on the first calendar only, and the lookup returned the earlier
\* one as read from the second calendar
C35_Witness ==
    /\ probe.entry = "next"
    /\ probe.world.down = {}
    /\ Cardinality(UpcomingIds) = 2
    /\ \E i \in UpcomingIds, j \in UpcomingIds :
          /\ i \in probe.world.on[Avi] /\ j \in probe.world.on[Yuval]
          /\ i \notin probe.world.on[Yuval]
          /\ StartOf(j) < StartOf(i)
          /\ probe.out = <<[id |-> j, start |-> probe.world.events[j].start,
                           calendarOwner |-> Yuval, isPast |-> FALSE,
                           status |-> "confirmed"]>>

----------------------------------------------------------------------------
(* Specification SpecFill: the fill-empty-fields command of
   commands/fill-columns.js on a stored sheet. The records are read once,
   then each record is researched and written in turn; the research call
   and the store write of a record can throw. *)

\* Object.keys(columnMap) after discoverColumns: the mapped fields and the
\* two bookkeeping keys discoverColumns stores in the same object
AllColumns(map) == DOMAIN map \cup { "_headers", "_headerIndices" }

\* !inv[field] || inv[field].trim() === ''
IsEmptyField(inv, field) ==
    \/ field \notin DOMAIN inv.f
    \/ inv.f[field] = <<>>
    \/ Trim(inv.f[field]) = <<>>

\* fill-columns.js lines 26-32
EmptyFields(map, inv) == { field \in AllColumns(map) : IsEmptyField(inv, field) }

\* Every field the research answered is written
FillUpdates_AllAnswered(emptyFields, research) ==
    [field \in { f \in DOMAIN research : research[f] # <<>> } |-> research[field]]

\* fill-columns.js lines 42-47: the answered fields among the empty ones
FillUpdates(emptyFields, research) ==
    [field \in { f \in emptyFields : f \in DOMAIN research /\ research[f] # <<>> }
        |-> research[field]]

MaxFill == 2

\* A record whose company cell holds one space
RecordSpaced == [BlankInvestor EXCEPT !.name = JohnName, !.company = <<" ">>]

FillSheets(hdrs) ==
    LET map == BuildColumnMap(hdrs)
        pool == { NewRow(map, Len(hdrs), inv) :
                    inv \in { RecordJane, RecordJohn, RecordSpaced } }
    IN UNION { [1..k -> pool] : k \in 0..MaxFill }

\* What researchInvestor returns: null, or an object with some fields, some
\* of them stored already, some answered with an empty text
Researches ==
    { [found |-> FALSE, f |-> EmptyMap],
      [found |-> TRUE, f |-> ("company" :> Beta)],
      [found |-> TRUE,
       f |-> ("name" :> JaneName) @@ ("company" :> Beta) @@ ("email" :> JaneAddr)
             @@ ("notes" :> NoteCall) @@ ("meetingStatus" :> <<>>)] }

\* Calls of one record that can throw: none, researchInvestor, updateInvestor
FillFailPoints == { "none", "research", "write" }

FillInit ==
    /\ \E hdrs \in EngineLayouts :
          /\ SchemaReady(hdrs)
          /\ sheet \in FillSheets(hdrs)
    /\ lastOp = "none"
    /\ lastCall = NoCall
    /\ IngestIdle
    /\ GroupIdle
    /\ EngineIdle
    /\ ReplayIdle
    /\ proc = NoProc
    /\ probe = [entry |-> "none", investors |-> <<>>, before |-> <<>>, at |-> 0,
                failed |-> {}, wrote |-> {}]

\* fillColumns lines 15-23: const investors = await getInvestors()
FillStart ==
    /\ probe.entry = "none"
    /\ probe' = [entry |-> "fill", investors |-> GetInvestors(columnMap, sheet),
                 before |-> sheet, at |-> 1, failed |-> {}, wrote |-> {}]
    /\ UNCHANGED sheet

\* One turn of the loop of lines 25-57
FillRecord(research, fail) ==
    /\ probe.entry = "fill"
    /\ probe.at <= Len(probe.investors)
    /\ LET inv == probe.investors[probe.at]
           emptyFields == EmptyFields(columnMap, inv)
           updates == FillUpdates(emptyFields, research.f)
           threw == /\ emptyFields # {}
                    /\ \/ fail = "research"
                       \/ fail = "write" /\ research.found /\ DOMAIN updates # {}
           writes == /\ emptyFields # {}
                     /\ fail = "none"
                     /\ research.found
                     /\ DOMAIN updates # {}
       IN /\ sheet' = IF writes
                      THEN UpdateInvestor(columnMap, sheet, inv.rowIndex, updates)
                      ELSE sheet
          /\ probe' = [probe EXCEPT
                         !.at = @ + 1,
                         !.failed = IF threw THEN @ \cup {probe.at} ELSE @,
                         !.wrote = IF writes THEN @ \cup {probe.at} ELSE @]

FillRecords ==
    \E research \in Researches, fail \in FillFailPoints : FillRecord(research, fail)

\* fillColumns line 59: the loop is over
FillComplete ==
    /\ probe.entry = "fill"
    /\ probe.at > Len(probe.investors)
    /\ probe' = [probe EXCEPT !.entry = "done"]
    /\ UNCHANGED sheet

FillRest == UNCHANGED <<schemaVars, lastOp, lastCall, ingestVars, groupVars, engineVars, replayVars, proc>>

FillNext ==
    \/ FillStart /\ FillRest
    \/ FillRecords /\ FillRest
    \/ FillComplete /\ FillRest

SpecFill == FillInit /\ [][FillNext]_vars

\* The field mapped to a column, if any
MappedColumn(c) == \E f \in DOMAIN columnMap : columnMap[f] = c - 1

\* C40: the fill command changes only cells of mapped fields that were empty
\* (nothing but white space) in the sheet as read at the start of the
\* command, and when it is over every record has had its turn, the records
\* after a failed one included.
C40_FillOnlyEmpty ==
    probe.entry \in { "fill", "done" } =>
        /\ Len(sheet) = Len(probe.before)
        /\ \A r \in 1..Len(sheet) : \A c \in 1..Len(sheet[r]) :
              sheet[r][c] # probe.before[r][c]
                  => MappedColumn(c) /\ Trim(probe.before[r][c]) = <<>>
        /\ probe.entry = "done" => probe.at = Len(probe.investors) + 1
        /\ probe.failed \cup probe.wrote \subseteq 1..(probe.at - 1)

\* C40 witness: the command ended after a record whose call threw was
\* followed by a record that was filled, on a sheet where the filled record
\* has stored values the research answered too
C40_Witness ==
    /\ probe.entry = "done"
    /\ \E i \in probe.failed : \E j \in probe.wrote :
          /\ i < j
          /\ sheet[i] = probe.before[i]
          /\ sheet[j] # probe.before[j]
          /\ \E c \in 1..Len(sheet[j]) : probe.before[j][c] # <<>>

====
